---- MODULE Spec2Model ----
(***************************************************************************)
(* Lexical Search: paragraph segmentation, term matching and pipe-section  *)
(* restructuring of App.tsx, over strings modelled as sequences of         *)
(* one-character strings.                                                  *)
(***************************************************************************)
EXTENDS Integers, Sequences, FiniteSets, TLC

VARIABLES
    files,            \* App state: FileData[]
    searchResults,    \* App state: SearchResult[]
    searchTerm,       \* App state: the stored search term
    isSearching,      \* App state: loading flag
    debugInfo,        \* App state: DebugInfo[]
    fileSourceMode,   \* App state: 'upload' | 'data-folder'
    text,             \* argument of splitTextIntoParagraphs
    splitOut,         \* its return value, or NotCalled
    paragraph,        \* argument of processFoundParagraph
    term,             \* the search term argument
    procOut,          \* return value of processFoundParagraph, or NotCalled
    request,          \* the arguments of handleSearch when it was the last
                      \* handler to run, or NotCalled
    fragment,         \* argument `text` of parseMarkdown
    currentIndex,     \* parseMarkdown: the scan cursor (0-based)
    elements,         \* parseMarkdown: the elements pushed so far
    docx,             \* exportToDocx: the children of the document it built,
                      \* or NotCalled
    pdf,              \* exportToPdf: the jsPDF document with the vertical
                      \* cursor yPosition and the lines drawn, or NotCalled
    selector,         \* DataFolderSelector state: availableFiles,
                      \* selectedFiles, isLoading and error
    loads,            \* the calls of loadSelectedFilesContent that await a
                      \* fetch, in the order they were started
    upload,           \* FileUpload state: files and error
    batches,          \* the calls of processFiles that await a read, in
                      \* the order they were started
    now               \* Date.now() at the last read that made a file id

vars == <<files, searchResults, searchTerm, isSearching, debugInfo,
          fileSourceMode, text, splitOut, paragraph, term, procOut, request,
          fragment, currentIndex, elements, docx, pdf,
          selector, loads, upload, batches, now>>

exportVars == <<docx, pdf>>

componentVars == <<selector, loads, upload, batches, now>>

mdVars == <<fragment, currentIndex, elements>>

appVars == <<files, searchResults, searchTerm, isSearching, debugInfo,
             fileSourceMode>>

NotCalled == [called |-> FALSE]

\* the two file components with nothing checked, nothing uploaded and no
\* call waiting
ComponentIdle ==
    /\ selector = [availableFiles |-> <<>>, selectedFiles |-> {},
                   isLoading |-> TRUE, error |-> <<>>]
    /\ loads = <<>>
    /\ upload = [files |-> <<>>, error |-> <<>>]
    /\ batches = <<>>
    /\ now = 0

(***************************************************************************)
(* Characters and the JavaScript string primitives the code uses.          *)
(***************************************************************************)
LF == "\n"
CR == "\r"
SP == " "
PIPE == "|"

\* String.prototype.trim's white space, restricted to the model's alphabet
WhiteSpace == {SP, LF, CR, "\t"}

\* the set of strings over alphabet cs of length at most n
StringsUpTo(cs, n) == UNION {[1..k -> cs] : k \in 0..n}

RECURSIVE Repeat(_, _)
Repeat(s, n) == IF n <= 0 THEN <<>> ELSE s \o Repeat(s, n - 1)

\* String.prototype.toLowerCase, one character (ASCII letters)
UpperLetters == <<"A", "B", "C", "D", "E", "F", "G", "H", "I", "J", "K", "L", "M",
                  "N", "O", "P", "Q", "R", "S", "T", "U", "V", "W", "X", "Y", "Z">>
LowerLetters == <<"a", "b", "c", "d", "e", "f", "g", "h", "i", "j", "k", "l", "m",
                  "n", "o", "p", "q", "r", "s", "t", "u", "v", "w", "x", "y", "z">>
UpperSet == {UpperLetters[i] : i \in 1..Len(UpperLetters)}
LowerMap == [c \in UpperSet |->
                LowerLetters[CHOOSE i \in 1..Len(UpperLetters) : UpperLetters[i] = c]]

LowerChar(c) == IF c \in UpperSet THEN LowerMap[c] ELSE c

\* the sequence with the values of f on 1..n
SeqOf(f, n) == SubSeq(f, 1, n)

toLowerCase(s) == SeqOf([i \in 1..Len(s) |-> LowerChar(s[i])], Len(s))

\* s has t at position i (1-based)
MatchesAt(s, t, i) ==
    /\ i >= 1
    /\ i + Len(t) - 1 <= Len(s)
    /\ \A j \in 1..Len(t) : s[i + j - 1] = t[j]

\* String.prototype.includes
includes(s, t) == \E i \in 1..(Len(s) - Len(t) + 1) : MatchesAt(s, t, i)

\* the least element of a non-empty set of integers
MinOf(S) == CHOOSE i \in S : \A j \in S : i <= j

\* String.prototype.indexOf(t, from), 1-based; 0 when there is none
indexOf(s, t, from) ==
    LET last == Len(s) - Len(t) + 1
    IN  IF \E i \in from..last : MatchesAt(s, t, i)
        THEN CHOOSE i \in from..last :
                 MatchesAt(s, t, i) /\ \A j \in from..(i - 1) : ~MatchesAt(s, t, j)
        ELSE 0

\* String.prototype.trim
RECURSIVE FirstNonWs(_, _)
FirstNonWs(s, i) ==
    IF i > Len(s) THEN i
    ELSE IF s[i] \in WhiteSpace THEN FirstNonWs(s, i + 1) ELSE i

RECURSIVE LastNonWs(_, _)
LastNonWs(s, i) ==
    IF i < 1 THEN i
    ELSE IF s[i] \in WhiteSpace THEN LastNonWs(s, i - 1) ELSE i

trim(s) == SubSeq(s, FirstNonWs(s, 1), LastNonWs(s, Len(s)))

\* the sequence, in increasing order, of the i in lo..hi with flags[i], by
\* halving the range
RECURSIVE positionsIn(_, _, _)
positionsIn(flags, lo, hi) ==
    IF lo > hi THEN <<>>
    ELSE IF lo = hi THEN (IF flags[lo] THEN <<lo>> ELSE <<>>)
    ELSE LET mid == (lo + hi) \div 2
         IN  positionsIn(flags, lo, mid) \o positionsIn(flags, mid + 1, hi)

\* the pieces of s between the separators that start at starts[q] and end at
\* ends[q]
piecesBetween(s, starts, ends) ==
    LET p == Len(starts)
    IN  SeqOf([q \in 1..(p + 1) |->
                  SubSeq(s, IF q = 1 THEN 1 ELSE ends[q - 1] + 1,
                            IF q = p + 1 THEN Len(s) ELSE starts[q] - 1)], p + 1)

\* String.prototype.split with a non-empty string separator scans left to
\* right for the next occurrence after the previous one: an occurrence at i
\* is a separator unless a separator that starts before i overlaps it
RECURSIVE isSeparatorAt(_, _, _)
isSeparatorAt(s, sep, i) ==
    /\ MatchesAt(s, sep, i)
    /\ \A j \in (i - Len(sep) + 1)..(i - 1) : ~isSeparatorAt(s, sep, j)

split(s, sep) ==
    LET flags == SeqOf([i \in 1..Len(s) |-> isSeparatorAt(s, sep, i)], Len(s))
        starts == positionsIn(flags, 1, Len(s))
        ends == SeqOf([q \in 1..Len(starts) |-> starts[q] + Len(sep) - 1], Len(starts))
    IN  piecesBetween(s, starts, ends)

\* the end of the run of line feeds that starts at i
RECURSIVE RunEnd(_, _)
RunEnd(s, i) ==
    IF i < Len(s) /\ s[i + 1] = LF THEN RunEnd(s, i + 1) ELSE i

\* String.prototype.split(/\n{2,}/): a separator is a maximal run of two or
\* more line feeds
isRunStartAt(s, i) ==
    /\ MatchesAt(s, <<LF, LF>>, i)
    /\ (i = 1 \/ s[i - 1] # LF)

splitRegex2Plus(s) ==
    LET flags == SeqOf([i \in 1..Len(s) |-> isRunStartAt(s, i)], Len(s))
        starts == positionsIn(flags, 1, Len(s))
        ends == SeqOf([q \in 1..Len(starts) |-> RunEnd(s, starts[q])], Len(starts))
    IN  piecesBetween(s, starts, ends)

\* Array.prototype.join, over the index range lo..hi by halving it
RECURSIVE joinRange(_, _, _, _)
joinRange(parts, sep, lo, hi) ==
    IF lo > hi THEN <<>>
    ELSE IF lo = hi THEN parts[lo]
    ELSE LET mid == (lo + hi) \div 2
         IN  joinRange(parts, sep, lo, mid) \o sep \o joinRange(parts, sep, mid + 1, hi)

join(parts, sep) == joinRange(parts, sep, 1, Len(parts))

\* text.replace(/\r\n/g, '\n'), by halving the index range
RECURSIVE replaceCRLF(_, _, _)
replaceCRLF(s, lo, hi) ==
    IF lo > hi THEN <<>>
    ELSE IF lo = hi
         THEN IF s[lo] = CR /\ lo < Len(s) /\ s[lo + 1] = LF THEN <<>> ELSE <<s[lo]>>
         ELSE LET mid == (lo + hi) \div 2
              IN  replaceCRLF(s, lo, mid) \o replaceCRLF(s, mid + 1, hi)

\* .replace(/\r/g, '\n')
replaceCR(s) == SeqOf([i \in 1..Len(s) |-> IF s[i] = CR THEN LF ELSE s[i]], Len(s))

\* the normalisation that rewrites only the two-character line ending
normalizeLineEndings_crlfOnly(s) == replaceCRLF(s, 1, Len(s))

\* text.replace(/\r\n/g, '\n').replace(/\r/g, '\n')
normalizeLineEndings(s) == replaceCR(replaceCRLF(s, 1, Len(s)))

\* a filter that keeps every non-empty piece, blank or not
filterNonBlank_nonEmpty(ps) == SelectSeq(ps, LAMBDA p : p # <<>>)

\* a filter that also trims the pieces it keeps
filterNonBlank_trimming(ps) ==
    LET kept == SelectSeq(ps, LAMBDA p : trim(p) # <<>>)
    IN  SeqOf([i \in 1..Len(kept) |-> trim(kept[i])], Len(kept))

\* .filter(p => p.trim())
filterNonBlank(ps) == SelectSeq(ps, LAMBDA p : trim(p) # <<>>)

(***************************************************************************)
(* splitTextIntoParagraphs                                                 *)
(***************************************************************************)
FewParagraphs == 3
TooManyParagraphs == 50
TinyParagraphLength == 20

DoubleName == "Double newline (\\n\\n)"
SingleName == "Single newline (\\n)"
TripleName == "Triple newline (\\n\\n\\n)"
RegexName == "Regex: 2+ newlines"

\* the four candidate methods, in the order of the array `methods`
methods(normalizedText) ==
    << [name |-> DoubleName,
        result |-> filterNonBlank(split(normalizedText, <<LF, LF>>))],
       [name |-> SingleName,
        result |-> filterNonBlank(split(normalizedText, <<LF>>))],
       [name |-> TripleName,
        result |-> filterNonBlank(split(normalizedText, <<LF, LF, LF>>))],
       [name |-> RegexName,
        result |-> filterNonBlank(splitRegex2Plus(normalizedText))] >>

\* first `if`: too few paragraphs with the double newline
chooseFirst(ms) ==
    IF Len(ms[1].result) < FewParagraphs /\ Len(ms[2].result) > Len(ms[1].result)
    THEN ms[2] ELSE ms[1]

\* the second `if` with the paragraph count compared by >=
chooseSecond_atLeast(ms, chosen) ==
    IF /\ Len(chosen.result) >= TooManyParagraphs
       /\ \E i \in 1..Len(chosen.result) : Len(chosen.result[i]) < TinyParagraphLength
    THEN ms[1] ELSE chosen

\* second `if`: too many tiny paragraphs
chooseSecond(ms, chosen) ==
    IF /\ Len(chosen.result) > TooManyParagraphs
       /\ \E i \in 1..Len(chosen.result) : Len(chosen.result[i]) < TinyParagraphLength
    THEN ms[1] ELSE chosen

\* result.reduce((sum, p) => sum + p.length, 0), by halving the index range
RECURSIVE sumLengthsRange(_, _, _)
sumLengthsRange(ps, lo, hi) ==
    IF lo > hi THEN 0
    ELSE IF lo = hi THEN Len(ps[lo])
    ELSE LET mid == (lo + hi) \div 2
         IN  sumLengthsRange(ps, lo, mid) + sumLengthsRange(ps, mid + 1, hi)

sumLengths(ps) == sumLengthsRange(ps, 1, Len(ps))

\* Math.round(sum / n) for a non-empty result, 0 otherwise
avgLength(ps) ==
    IF Len(ps) > 0 THEN (2 * sumLengths(ps) + Len(ps)) \div (2 * Len(ps)) ELSE 0

\* result.slice(0, 3).map(p => p.substring(0, 100) + (p.length > 100 ? '...' : ''))
sample(ps) ==
    LET n == IF Len(ps) < 3 THEN Len(ps) ELSE 3
    IN  SeqOf([i \in 1..n |->
                  IF Len(ps[i]) > 100 THEN SubSeq(ps[i], 1, 100) \o <<".", ".", ".">>
                  ELSE ps[i]], n)

\* The function's constants are bound in the order the code declares them,
\* each as the parameter of the step that follows its declaration.
splitTextIntoParagraphs(t) ==
    LET returned(normalizedText, ms, chosenMethod) ==
            [called |-> TRUE,
             paragraphs |-> chosenMethod.result,
             splitInfo |->
                [originalLength |-> Len(t),
                 normalizedLength |-> Len(normalizedText),
                 hasCarriageReturns |-> includes(t, <<CR>>),
                 hasWindowsLineEndings |-> includes(t, <<CR, LF>>),
                 doubleNewlineCount |-> Len(split(normalizedText, <<LF, LF>>)) - 1,
                 singleNewlineCount |-> Len(split(normalizedText, <<LF>>)) - 1,
                 splitMethods |-> SeqOf([i \in 1..4 |->
                     [name |-> ms[i].name,
                      paragraphCount |-> Len(ms[i].result),
                      avgLength |-> avgLength(ms[i].result),
                      sample |-> sample(ms[i].result)]], 4),
                 chosenMethod |-> chosenMethod.name]]
        withMethods(normalizedText, ms) ==
            returned(normalizedText, ms, chooseSecond(ms, chooseFirst(ms)))
        withNormalizedText(normalizedText) ==
            withMethods(normalizedText, methods(normalizedText))
    IN  withNormalizedText(normalizeLineEndings(t))

(***************************************************************************)
(* processFoundParagraph                                                   *)
(***************************************************************************)
BaseTag == <<"[", "B", "A", "S", "E", "]", " ">>
MatchTag == <<"[", "M", "A", "T", "C", "H", "]", " ">>
SkipTag == <<"[", "S", "K", "I", "P", "]", " ">>

\* searchTerm.trim().toLowerCase()
normalizeTerm(t) == toLowerCase(trim(t))

\* the trigger with the part count off by one
pipeTrigger_twoParts(p) == includes(p, <<PIPE>>) /\ Len(split(p, <<PIPE>>)) >= 2

\* paragraph.includes('|') && paragraph.split('|').length >= 3
pipeTrigger(p) == includes(p, <<PIPE>>) /\ Len(split(p, <<PIPE>>)) >= 3

\* paragraph.split('|').map(s => s.trim())
splitSentences(p) ==
    LET raw == split(p, <<PIPE>>)
    IN  SeqOf([i \in 1..Len(raw) |-> trim(raw[i])], Len(raw))

\* the containment test without the case folding of the sentence
containsTerm_caseSensitive(sentence, processedSearchTerm) ==
    includes(sentence, processedSearchTerm)

\* sentence.toLowerCase().includes(processedSearchTerm)
containsTerm(sentence, processedSearchTerm) ==
    includes(toLowerCase(sentence), processedSearchTerm)

\* the for loop over sentences[1..], from index i (1-based: i = 2 is the
\* second sentence), accumulating finalParagraphParts and selectedSentences
RECURSIVE selectLoop(_, _, _, _, _)
selectLoop(sentences, processedSearchTerm, i, parts, selected) ==
    IF i > Len(sentences) THEN [parts |-> parts, selected |-> selected]
    ELSE IF containsTerm(sentences[i], processedSearchTerm)
         THEN selectLoop(sentences, processedSearchTerm, i + 1,
                         Append(parts, sentences[i]),
                         Append(selected, MatchTag \o sentences[i]))
         ELSE selectLoop(sentences, processedSearchTerm, i + 1,
                         parts,
                         Append(selected, SkipTag \o sentences[i]))

\* the join with two blanks between the parts
joinParts_twoBlanks(parts) == join(parts, <<SP, SP>>)

\* the join without the separating blank
joinParts_noSeparator(parts) == join(parts, <<>>)

\* finalParagraphParts.join(' ')
joinParts(parts) == join(parts, <<SP>>)

processFoundParagraph(p, st, fileName, paragraphIndex) ==
    LET restructured(debugData, sentences, sel, result) ==
            [called |-> TRUE,
             processed |-> result,
             debug |-> [debugData EXCEPT !.sentences = sentences,
                                         !.selectedSentences = sel.selected,
                                         !.finalParagraph = result]]
        withSelection(debugData, sentences, sel) ==
            restructured(debugData, sentences, sel, joinParts(sel.parts))
        withSentences(debugData, sentences) ==
            withSelection(debugData, sentences,
                          selectLoop(sentences, debugData.searchTerm, 2,
                                     <<sentences[1]>>,
                                     <<BaseTag \o sentences[1]>>))
        withDebugData(debugData) ==
            IF pipeTrigger(p)
            THEN withSentences(debugData, splitSentences(p))
            ELSE [called |-> TRUE,
                  processed |-> p,
                  debug |-> [debugData EXCEPT !.finalParagraph = p]]
    IN  withDebugData([fileName |-> fileName,
                       paragraphIndex |-> paragraphIndex,
                       originalParagraph |-> p,
                       searchTerm |-> normalizeTerm(st),
                       containsPipe |-> includes(p, <<PIPE>>),
                       splitCount |-> Len(split(p, <<PIPE>>)),
                       sentences |-> <<>>,
                       selectedSentences |-> <<>>,
                       finalParagraph |-> <<>>])

(***************************************************************************)
(* Occurrence counting: new RegExp(escaped term, 'g') matched against the  *)
(* lower-cased paragraph.                                                  *)
(***************************************************************************)
BACKSLASH == "\\"

\* the character class of processedTerm.replace(/[.*+?^${}()|[\]\\]/g, ...)
RegexSpecial == {".", "*", "+", "?", "^", "$", "{", "}", "(", ")", "|", "[", "]", BACKSLASH}

\* .replace(/[.*+?^${}()|[\]\\]/g, '\\$&')
RECURSIVE escapeRegExp(_)
escapeRegExp(t) ==
    IF t = <<>> THEN <<>>
    ELSE (IF Head(t) \in RegexSpecial THEN <<BACKSLASH, Head(t)>> ELSE <<Head(t)>>)
         \o escapeRegExp(Tail(t))

\* A pattern source as a sequence of alternatives, each a sequence of atoms.
\* The syntax covered is what the model's alphabet can spell: an escaped
\* character, the wildcard '.', the alternation '|', and literals.
RECURSIVE parseAlt(_, _, _)
parseAlt(src, i, atoms) ==
    IF i > Len(src) \/ src[i] = PIPE THEN [atoms |-> atoms, next |-> i]
    ELSE IF src[i] = BACKSLASH /\ i < Len(src)
         THEN parseAlt(src, i + 2, Append(atoms, [any |-> FALSE, ch |-> src[i + 1]]))
    ELSE IF src[i] = "."
         THEN parseAlt(src, i + 1, Append(atoms, [any |-> TRUE, ch |-> "."]))
    ELSE parseAlt(src, i + 1, Append(atoms, [any |-> FALSE, ch |-> src[i]]))

RECURSIVE parseRegExp(_, _)
parseRegExp(src, i) ==
    LET a == parseAlt(src, i, <<>>)
    IN  IF a.next > Len(src) THEN <<a.atoms>>
        ELSE <<a.atoms>> \o parseRegExp(src, a.next + 1)

atomMatches(atom, c) == IF atom.any THEN c \notin {LF, CR} ELSE atom.ch = c

altMatchesAt(s, atoms, i) ==
    /\ i + Len(atoms) - 1 <= Len(s)
    /\ \A j \in 1..Len(atoms) : atomMatches(atoms[j], s[i + j - 1])

\* length of the match at i (first alternative that matches), or -1
matchLengthAt(s, alts, i) ==
    LET ok == {k \in 1..Len(alts) : altMatchesAt(s, alts[k], i)}
    IN  IF ok = {} THEN -1
        ELSE Len(alts[MinOf(ok)])

\* String.prototype.match with a global regular expression scans left to
\* right from lastIndex and continues past each match (by one after an empty
\* match): a position that matches is a match unless an earlier match covers it
RECURSIVE isMatchAt(_, _, _)
isMatchAt(s, alts, i) ==
    /\ matchLengthAt(s, alts, i) >= 0
    /\ \A j \in 1..(i - 1) :
          LET n == matchLengthAt(s, alts, j)
          IN  (n >= 0 /\ j + (IF n = 0 THEN 1 ELSE n) > i) => ~isMatchAt(s, alts, j)

\* matches.length
countMatches(s, alts) == Cardinality({i \in 1..(Len(s) + 1) : isMatchAt(s, alts, i)})

\* the pattern source without the escaping
regexSource_unescaped(processedTerm) == processedTerm

\* the pattern source handed to new RegExp
regexSource(processedTerm) == escapeRegExp(processedTerm)

\* the count taken on the paragraph as written, without the case folding
paragraphOccurrences_caseSensitive(p, processedTerm) ==
    countMatches(p, parseRegExp(regexSource(processedTerm), 1))

\* matches ? matches.length : 0
paragraphOccurrences(p, processedTerm) ==
    countMatches(toLowerCase(p), parseRegExp(regexSource(processedTerm), 1))

(***************************************************************************)
(* handleSearch                                                            *)
(***************************************************************************)
\* files.find(f => f.id === fileId): index of the first such file, or 0
RECURSIVE findFile(_, _, _)
findFile(fs, fileId, i) ==
    IF i > Len(fs) THEN 0
    ELSE IF fs[i].id = fileId THEN i ELSE findFile(fs, fileId, i + 1)

\* the paragraph filter without the case folding of the paragraph
containsSearchTerm_caseSensitive(p, processedTerm) == includes(p, processedTerm)

\* paragraph.toLowerCase().includes(processedTerm)
containsSearchTerm(p, processedTerm) == includes(toLowerCase(p), processedTerm)

\* file.content.substring(0, 500) + (file.content.length > 500 ? '...' : '')
contentPreview(content) ==
    IF Len(content) > 500 THEN SubSeq(content, 1, 500) \o <<".", ".", ".">>
    ELSE content

\* the debug entry pushed once per file
fileDebugEntry(file, sp, processedTerm) ==
    [fileName |-> file.name,
     paragraphIndex |-> 0,
     originalParagraph |-> [fileSplitInfo |-> sp.splitInfo],
     processedParagraph |-> [totalParagraphsFound |-> Len(sp.paragraphs)],
     debugDetails |-> [fileName |-> file.name,
                       paragraphIndex |-> 0,
                       originalParagraph |-> contentPreview(file.content),
                       searchTerm |-> processedTerm,
                       containsPipe |-> FALSE,
                       splitCount |-> 0,
                       sentences |-> <<>>,
                       selectedSentences |-> <<sp.splitInfo.chosenMethod,
                                               Len(sp.paragraphs)>>,
                       splitInfo |-> sp.splitInfo]]

\* one iteration of the loop over allParagraphs (STEP 2): what paragraph i
\* adds to foundParagraphs, occurrenceCount and allDebugInfo
paragraphStep(allParagraphs, rawTerm, processedTerm, fileName, i) ==
    IF containsSearchTerm(allParagraphs[i], processedTerm)
    THEN LET found(r) ==
                 [foundParagraphs |-> <<r.processed>>,
                  occurrenceCount |->
                      paragraphOccurrences(allParagraphs[i], processedTerm),
                  debug |-> <<[fileName |-> fileName,
                               paragraphIndex |-> i,
                               originalParagraph |-> allParagraphs[i],
                               processedParagraph |-> r.processed,
                               debugDetails |-> r.debug]>>]
         IN  found(processFoundParagraph(allParagraphs[i], rawTerm, fileName, i))
    ELSE [foundParagraphs |-> <<>>, occurrenceCount |-> 0, debug |-> <<>>]

\* the loop for i in lo..hi; its iterations do not depend on one another, so
\* the range is halved and the parts are appended in index order
RECURSIVE paragraphLoop(_, _, _, _, _, _)
paragraphLoop(allParagraphs, rawTerm, processedTerm, fileName, lo, hi) ==
    IF lo > hi
    THEN [foundParagraphs |-> <<>>, occurrenceCount |-> 0, debug |-> <<>>]
    ELSE IF lo = hi
    THEN paragraphStep(allParagraphs, rawTerm, processedTerm, fileName, lo)
    ELSE LET mid == (lo + hi) \div 2
             l == paragraphLoop(allParagraphs, rawTerm, processedTerm, fileName, lo, mid)
             r == paragraphLoop(allParagraphs, rawTerm, processedTerm, fileName,
                                mid + 1, hi)
         IN  [foundParagraphs |-> l.foundParagraphs \o r.foundParagraphs,
              occurrenceCount |-> l.occurrenceCount + r.occurrenceCount,
              debug |-> l.debug \o r.debug]

\* the body of the loop over selectedFileIds for one file that was found
searchFile(file, rawTerm, processedTerm) ==
    LET pushed(sp, loop) ==
            [result |-> [fileName |-> file.name,
                         foundParagraphs |-> loop.foundParagraphs,
                         totalParagraphs |-> Len(sp.paragraphs),
                         occurrenceCount |-> loop.occurrenceCount],
             debug |-> <<fileDebugEntry(file, sp, processedTerm)>> \o loop.debug]
        withParagraphs(sp) ==
            pushed(sp, paragraphLoop(sp.paragraphs, rawTerm, processedTerm, file.name,
                                     1, Len(sp.paragraphs)))
    IN  withParagraphs(splitTextIntoParagraphs(file.content))

\* the loop leaving at the first id that is not loaded instead of going on
RECURSIVE fileLoop_stopAtMissing(_, _, _, _, _, _, _)
fileLoop_stopAtMissing(fs, selectedFileIds, rawTerm, processedTerm, k, results, allDebugInfo) ==
    IF k > Len(selectedFileIds)
    THEN [results |-> results, allDebugInfo |-> allDebugInfo]
    ELSE LET idx == findFile(fs, selectedFileIds[k], 1)
             searched(r) ==
                 fileLoop_stopAtMissing(fs, selectedFileIds, rawTerm, processedTerm,
                                        k + 1, Append(results, r.result),
                                        allDebugInfo \o r.debug)
         IN  IF idx = 0
             THEN [results |-> results, allDebugInfo |-> allDebugInfo]
             ELSE searched(searchFile(fs[idx], rawTerm, processedTerm))

\* for (const fileId of selectedFileIds), from index k
RECURSIVE fileLoop(_, _, _, _, _, _, _)
fileLoop(fs, selectedFileIds, rawTerm, processedTerm, k, results, allDebugInfo) ==
    IF k > Len(selectedFileIds)
    THEN [results |-> results, allDebugInfo |-> allDebugInfo]
    ELSE LET idx == findFile(fs, selectedFileIds[k], 1)
             searched(r) ==
                 fileLoop(fs, selectedFileIds, rawTerm, processedTerm, k + 1,
                          Append(results, r.result), allDebugInfo \o r.debug)
         IN  IF idx = 0
             THEN fileLoop(fs, selectedFileIds, rawTerm, processedTerm, k + 1,
                           results, allDebugInfo)
             ELSE searched(searchFile(fs[idx], rawTerm, processedTerm))

\* the validation without the trim of the term
rejectsSearch_untrimmed(t, selectedFileIds) == t = <<>> \/ Len(selectedFileIds) = 0

\* !term.trim() || selectedFileIds.length === 0
rejectsSearch(t, selectedFileIds) == trim(t) = <<>> \/ Len(selectedFileIds) = 0

handleSearch(t, selectedFileIds) ==
    IF rejectsSearch(t, selectedFileIds)
    THEN UNCHANGED appVars
    ELSE LET finished(out) ==
                 /\ searchTerm' = t
                 /\ searchResults' = out.results
                 /\ debugInfo' = out.allDebugInfo
                 /\ isSearching' = FALSE
                 /\ UNCHANGED <<files, fileSourceMode>>
         IN  finished(fileLoop(files, selectedFileIds, t, normalizeTerm(t), 1,
                               <<>>, <<>>))

\* the call as the harness records it: its arguments and the files whose
\* content the loop handed to splitTextIntoParagraphs
requestOf(t, selectedFileIds) ==
    [called |-> TRUE,
     term |-> t,
     selectedFileIds |-> selectedFileIds,
     segmented |->
        IF rejectsSearch(t, selectedFileIds) THEN <<>>
        ELSE LET names(out) == SeqOf([k \in 1..Len(out.results) |->
                                         out.results[k].fileName],
                                     Len(out.results))
             IN  names(fileLoop(files, selectedFileIds, t, normalizeTerm(t), 1,
                                <<>>, <<>>))]

\* handleSearch statement by statement: what runs before the try block
beginSearch(t, selectedFileIds) ==
    /\ ~rejectsSearch(t, selectedFileIds)
    /\ isSearching' = TRUE
    /\ searchTerm' = t
    /\ UNCHANGED <<files, searchResults, debugInfo, fileSourceMode>>

\* what the loop of the try block builds from the files the callback holds
tryResult(t, selectedFileIds) ==
    fileLoop(files, selectedFileIds, t, normalizeTerm(t), 1, <<>>, <<>>)

\* the try block run to its end: setSearchResults(results) and
\* setDebugInfo(allDebugInfo)
trySearch(out) ==
    /\ searchResults' = out.results
    /\ debugInfo' = out.allDebugInfo
    /\ UNCHANGED <<files, searchTerm, isSearching, fileSourceMode>>

\* the try block left by an exception before setSearchResults
throwSearch == UNCHANGED appVars

\* the loading state cleared as the last statement of the try block
finallySearch_endOfTry(failed) ==
    /\ isSearching' = failed
    /\ UNCHANGED <<files, searchResults, searchTerm, debugInfo, fileSourceMode>>

\* finally { setIsSearching(false) }, whether the try block failed or not
finallySearch(failed) ==
    /\ isSearching' = FALSE
    /\ UNCHANGED <<files, searchResults, searchTerm, debugInfo, fileSourceMode>>

\* the call in progress: its arguments, the statement it is at, whether its
\* try block has thrown, and what the loop builds
callOf(t, selectedFileIds, at, failed) ==
    [called |-> TRUE, term |-> t, selectedFileIds |-> selectedFileIds,
     at |-> at, failed |-> failed,
     out |-> IF at = "try" THEN tryResult(t, selectedFileIds)
             ELSE [results |-> <<>>, allDebugInfo |-> <<>>]]

\* the upload handler that leaves the results of the files before in place
handleFilesUploaded_keepResults(uploadedFiles) ==
    /\ files' = uploadedFiles
    /\ UNCHANGED <<searchResults, debugInfo, searchTerm, isSearching, fileSourceMode>>

handleFilesUploaded(uploadedFiles) ==
    /\ files' = uploadedFiles
    /\ searchResults' = <<>>
    /\ debugInfo' = <<>>
    /\ UNCHANGED <<searchTerm, isSearching, fileSourceMode>>

handleFilesSelected(selectedFiles) ==
    /\ files' = selectedFiles
    /\ searchResults' = <<>>
    /\ debugInfo' = <<>>
    /\ UNCHANGED <<searchTerm, isSearching, fileSourceMode>>

handleModeChange(mode) ==
    /\ fileSourceMode' = mode
    /\ files' = <<>>
    /\ searchResults' = <<>>
    /\ debugInfo' = <<>>
    /\ UNCHANGED <<searchTerm, isSearching>>

(***************************************************************************)
(* parseMarkdown: one iteration of its while loop per step.                *)
(***************************************************************************)
HASH == "#"
STAR == "*"
\* the backtick of inline code, written with a character that a string of
\* this module can hold
TICK == "^"

\* what text[i] yields outside the string
Undefined == "undefined"

\* text[i], 0-based
charAt(s, i) == IF i >= 0 /\ i < Len(s) THEN s[i + 1] ELSE Undefined

\* text.slice(from, to) and text.slice(from), 0-based, for 0 <= from
slice(s, from, to) == SubSeq(s, from + 1, IF to > Len(s) THEN Len(s) ELSE to)
sliceFrom(s, from) == SubSeq(s, from + 1, Len(s))

\* remainingText.indexOf(marker), 0-based, -1 when there is none
indexOf0(s, marker) == indexOf(s, marker, 1) - 1

\* the characters the dot of a regular expression does not match
LineTerminators == {LF, CR}

MaxHeaderLevel == 6

\* the length of the run of c at the start of s
RECURSIVE runLength(_, _, _)
runLength(s, cs, i) ==
    IF i <= Len(s) /\ s[i] \in cs THEN 1 + runLength(s, cs, i + 1) ELSE 0

\* the index of the last character of the line that holds position q
RECURSIVE lineEnd(_, _)
lineEnd(s, q) == IF q < Len(s) /\ s[q + 1] # LF THEN lineEnd(s, q + 1) ELSE q

\* s.match(/^(#{1,6})\s+(.+?)(?=\n|$)/): the hashes are the whole run (a
\* shorter one is followed by a hash, not by white space); the white space
\* is the longest prefix of its run after which a character that the dot
\* matches follows and the rest of that line has no other line terminator
headerMatch(s) ==
    LET found(h, ws) ==
            LET ok == {w \in 1..ws :
                          /\ h + w + 1 <= Len(s)
                          /\ \A q \in (h + w + 1)..lineEnd(s, h + w + 1) :
                                s[q] \notin LineTerminators}
                taken(w) == [matched |-> TRUE,
                             level |-> h,
                             content |-> SubSeq(s, h + w + 1, lineEnd(s, h + w + 1)),
                             length |-> lineEnd(s, h + w + 1)]
            IN  IF h >= 1 /\ h <= MaxHeaderLevel /\ ok # {}
                THEN taken(CHOOSE w \in ok : \A v \in ok : v <= w)
                ELSE [matched |-> FALSE]
        withHashes(h) == found(h, runLength(s, WhiteSpace, h + 1))
    IN  withHashes(runLength(s, {HASH}, 1))

\* text[currentIndex] === '#' && (currentIndex === 0 || text[currentIndex - 1] === '\n')
headerStart(s, ci) ==
    charAt(s, ci) = HASH /\ (ci = 0 \/ charAt(s, ci - 1) = LF)

\* the test that accepts a closing marker right after the opening one
closingFound_anyIndex(endIndex) == endIndex # -1

\* endIndex !== -1 && endIndex > 0
closingFound(endIndex) == endIndex # -1 /\ endIndex > 0

\* the bold branch: its condition and the content it pushes
boldMatch(s, ci) ==
    LET at(endIndex) ==
            IF closingFound(endIndex)
            THEN [matched |-> TRUE, content |-> slice(sliceFrom(s, ci + 2), 0, endIndex)]
            ELSE [matched |-> FALSE]
    IN  IF slice(s, ci, ci + 2) = <<STAR, STAR>>
        THEN at(indexOf0(sliceFrom(s, ci + 2), <<STAR, STAR>>))
        ELSE [matched |-> FALSE]

\* the italic branch
italicMatch(s, ci) ==
    LET at(endIndex) ==
            IF /\ closingFound(endIndex)
               /\ (ci + 2 + endIndex >= Len(s) \/ charAt(s, ci + 2 + endIndex) # STAR)
            THEN [matched |-> TRUE, content |-> slice(sliceFrom(s, ci + 1), 0, endIndex)]
            ELSE [matched |-> FALSE]
    IN  IF /\ charAt(s, ci) = STAR
           /\ charAt(s, ci + 1) # STAR
           /\ (ci = 0 \/ charAt(s, ci - 1) # STAR)
        THEN at(indexOf0(sliceFrom(s, ci + 1), <<STAR>>))
        ELSE [matched |-> FALSE]

\* the code branch
codeMatch(s, ci) ==
    LET at(endIndex) ==
            IF closingFound(endIndex)
            THEN [matched |-> TRUE, content |-> slice(sliceFrom(s, ci + 1), 0, endIndex)]
            ELSE [matched |-> FALSE]
    IN  IF charAt(s, ci) = TICK
        THEN at(indexOf0(sliceFrom(s, ci + 1), <<TICK>>))
        ELSE [matched |-> FALSE]

\* the test for a start that leaves out the code marker
markdownStart_starsOnly(s, i) ==
    \/ charAt(s, i) = STAR
    \/ (charAt(s, i) = HASH /\ charAt(s, i - 1) = LF)

\* char === '*' || char === TICK || (char === '#' && prevChar === '\n')
markdownStart(s, i) ==
    \/ charAt(s, i) = STAR
    \/ charAt(s, i) = TICK
    \/ (charAt(s, i) = HASH /\ charAt(s, i - 1) = LF)

\* the scan for the next start that begins at the cursor itself
nextMarkdownIndex_fromCursor(s, ci) ==
    IF \E i \in ci..(Len(s) - 1) : markdownStart(s, i)
    THEN MinOf({i \in ci..(Len(s) - 1) : markdownStart(s, i)})
    ELSE Len(s)

\* for (let i = currentIndex + 1; i < text.length; i++) ... break
nextMarkdownIndex(s, ci) ==
    IF \E i \in (ci + 1)..(Len(s) - 1) : markdownStart(s, i)
    THEN MinOf({i \in (ci + 1)..(Len(s) - 1) : markdownStart(s, i)})
    ELSE Len(s)

\* currentIndex += 2 + ...: the advance that leaves out the closing marker
boldAdvance_openingOnly(content) == 2 + Len(content)

\* currentIndex += 4 + boldContent.length
boldAdvance(content) == 4 + Len(content)

\* the plain text pushed when no construct starts at the cursor
textStep(s, ci, els, next) ==
    [currentIndex |-> next,
     elements |-> IF slice(s, ci, next) # <<>>
                  THEN Append(els, [type |-> "text", content |-> slice(s, ci, next)])
                  ELSE els]

\* one iteration of while (currentIndex < text.length)
parseStep(s, ci, els) ==
    LET afterCode(c) ==
            IF c.matched
            THEN [currentIndex |-> ci + 2 + Len(c.content),
                  elements |-> Append(els, [type |-> "code", content |-> c.content])]
            ELSE textStep(s, ci, els, nextMarkdownIndex(s, ci))
        afterItalic(it) ==
            IF it.matched
            THEN [currentIndex |-> ci + 2 + Len(it.content),
                  elements |-> Append(els, [type |-> "italic", content |-> it.content])]
            ELSE afterCode(codeMatch(s, ci))
        afterBold(b) ==
            IF b.matched
            THEN [currentIndex |-> ci + boldAdvance(b.content),
                  elements |-> Append(els, [type |-> "bold", content |-> b.content])]
            ELSE afterItalic(italicMatch(s, ci))
        afterHeader(h) ==
            IF h.matched
            THEN [currentIndex |-> ci + h.length,
                  elements |-> Append(els, [type |-> "header", content |-> h.content,
                                            level |-> h.level])]
            ELSE afterBold(boldMatch(s, ci))
    IN  IF headerStart(s, ci)
        THEN afterHeader(headerMatch(sliceFrom(s, ci)))
        ELSE afterBold(boldMatch(s, ci))

\* the whole loop, from cursor ci
RECURSIVE parseLoop(_, _, _)
parseLoop(s, ci, els) ==
    IF ci < Len(s)
    THEN LET next(r) == parseLoop(s, r.currentIndex, r.elements)
         IN  next(parseStep(s, ci, els))
    ELSE els

parseMarkdown(s) == parseLoop(s, 0, <<>>)

MarkdownIdle ==
    /\ fragment = <<>>
    /\ currentIndex = 0
    /\ elements = <<>>

(***************************************************************************)
(* exportToDocx: the children of the section it builds.                    *)
(***************************************************************************)
Digits == <<"0", "1", "2", "3", "4", "5", "6", "7", "8", "9">>

\* Number.prototype.toString of a natural number
RECURSIVE toStringNat(_)
toStringNat(n) ==
    IF n < 10 THEN <<Digits[n + 1]>>
    ELSE toStringNat(n \div 10) \o <<Digits[(n % 10) + 1]>>

HeaderBaseSize == 28

\* createDocxTextRuns: one TextRun per element
createDocxTextRun(element) ==
    CASE element.type = "bold" -> [text |-> element.content, bold |-> TRUE]
      [] element.type = "italic" -> [text |-> element.content, italics |-> TRUE]
      [] element.type = "code" -> [text |-> element.content, font |-> "Courier New"]
      [] element.type = "header" ->
             [text |-> element.content, bold |-> TRUE,
              size |-> HeaderBaseSize - element.level * 2]
      [] OTHER -> [text |-> element.content]

createDocxTextRuns(els) ==
    SeqOf([i \in 1..Len(els) |-> createDocxTextRun(els[i])], Len(els))

\* new TextRun({ text: `${index + 1}. `, bold: true }), index 0-based
labelRun(index) == [text |-> toStringNat(index + 1) \o <<".", SP>>, bold |-> TRUE]

\* the paragraph pushed for found paragraph number index (0-based)
paragraphBlock(p, index) ==
    [kind |-> "paragraph",
     children |-> <<labelRun(index)>> \o createDocxTextRuns(parseMarkdown(trim(p)))]

\* the search by value: the first entry that equals the k-th
indexOfResult_byValue(results, k) ==
    MinOf({j \in 1..Len(results) : results[j] = results[k]}) - 1

\* results.indexOf(result), 0-based, for the k-th entry of the loop: strict
\* equality of objects, and every entry of the array is an object literal
\* of its own (results.push({...}) in handleSearch), so the search stops at
\* the entry itself
indexOfResult(results, k) ==
    LET objects == SeqOf([j \in 1..Len(results) |-> j], Len(results))
    IN  MinOf({j \in 1..Len(results) : objects[j] = objects[k]}) - 1

\* what one iteration of for (const result of results) pushes
resultBlocks(results, k) ==
    LET found == results[k].foundParagraphs
    IN  << [kind |-> "source", fileName |-> results[k].fileName],
           [kind |-> "count", found |-> Len(found),
            total |-> results[k].totalParagraphs] >>
        \o (IF Len(found) = 0
            THEN <<[kind |-> "none"]>>
            ELSE SeqOf([i \in 1..Len(found) |-> paragraphBlock(found[i], i - 1)],
                       Len(found)))
        \o (IF indexOfResult(results, k) < Len(results) - 1
            THEN <<[kind |-> "pageBreak"]>>
            ELSE <<>>)

RECURSIVE sumFound(_, _)
sumFound(results, k) ==
    IF k = 0 THEN 0 ELSE Len(results[k].foundParagraphs) + sumFound(results, k - 1)

RECURSIVE sumOccurrenceCount(_, _)
sumOccurrenceCount(results, k) ==
    IF k = 0 THEN 0 ELSE results[k].occurrenceCount + sumOccurrenceCount(results, k - 1)

RECURSIVE allResultBlocks(_, _)
allResultBlocks(results, k) ==
    IF k > Len(results) THEN <<>>
    ELSE resultBlocks(results, k) \o allResultBlocks(results, k + 1)

\* the array `children` handed to new Document
exportToDocx(results, st) ==
    [called |-> TRUE,
     children |->
        << [kind |-> "title", searchTerm |-> st],
           [kind |-> "summary"],
           [kind |-> "files", count |-> Len(results)],
           [kind |-> "paragraphs", count |-> sumFound(results, Len(results))],
           [kind |-> "occurrences",
            count |-> sumOccurrenceCount(results, Len(results))] >>
        \o allResultBlocks(results, 1)]

\* ExportPanel.handleExport('docx')
handleExportDocx ==
    /\ searchResults # <<>>
    /\ docx' = exportToDocx(searchResults, searchTerm)

ExportIdle == docx = NotCalled /\ pdf = NotCalled

(***************************************************************************)
(* exportToPdf: addFormattedText, its line buffer and the lines it draws.  *)
(* Lengths are in one unit throughout, a tenth of the font size.           *)
(***************************************************************************)
margin == 20
FirstLineY == 30
PageFoot == 20
HeaderGap == 5
ParagraphGap == 5
ParagraphFontSize == 10
ParagraphIndent == 20

HelveticaNormal == [name |-> "helvetica", style |-> "normal"]
CourierNormal == [name |-> "courier", style |-> "normal"]

\* let fontStyle = 'normal'; if (isBold && isItalic) ... else if ...
fontStyleOf(isBold, isItalic) ==
    IF isBold /\ isItalic THEN "bolditalic"
    ELSE IF isBold THEN "bold"
    ELSE IF isItalic THEN "italic"
    ELSE "normal"

\* addToLine: pdf.setFont(isCode ? 'courier' : 'helvetica', fontStyle)
measureFont(fmt) ==
    [name |-> IF fmt.isCode THEN "courier" ELSE "helvetica",
     style |-> fontStyleOf(fmt.isBold, fmt.isItalic)]

\* flushLine: pdf.setFont('helvetica', fontStyle), then for code
\* pdf.setFont('courier', 'normal'): the font a segment is drawn in
drawFont(segment) ==
    IF segment.isCode THEN CourierNormal
    ELSE [name |-> "helvetica",
          style |-> fontStyleOf(segment.isBold, segment.isItalic)]

\* the font flushLine leaves selected after a segment: helvetica normal
\* after code, the segment's own font otherwise
fontAfterDraw(segment) ==
    IF segment.isCode THEN HelveticaNormal ELSE drawFont(segment)

\* the advance width of one character in the fonts of the library: every
\* courier glyph has one width; in helvetica an i is narrower than a blank,
\* a blank narrower than the other letters, and the bold i is wider than
\* the regular one
glyphWidth(font, c) ==
    IF font.name = "courier" THEN 6
    ELSE IF c = "i" THEN (IF font.style \in {"bold", "bolditalic"} THEN 3 ELSE 2)
    ELSE IF c = SP THEN 3
    ELSE 6

\* pdf.getTextWidth(s) with the given font selected
RECURSIVE getTextWidth(_, _)
getTextWidth(font, s) ==
    IF s = <<>> THEN 0
    ELSE glyphWidth(font, Head(s)) + getTextWidth(font, Tail(s))

\* the end of the run of white space that starts at i
RECURSIVE wsRunEnd(_, _)
wsRunEnd(s, i) ==
    IF i < Len(s) /\ s[i + 1] \in WhiteSpace THEN wsRunEnd(s, i + 1) ELSE i

\* text.split(/\s+/): a separator is a maximal run of white space
splitWhiteSpace(s) ==
    LET flags == SeqOf([i \in 1..Len(s) |->
                           /\ s[i] \in WhiteSpace
                           /\ (i = 1 \/ s[i - 1] \notin WhiteSpace)], Len(s))
        starts == positionsIn(flags, 1, Len(s))
        ends == SeqOf([q \in 1..Len(starts) |-> wsRunEnd(s, starts[q])], Len(starts))
    IN  piecesBetween(s, starts, ends)

\* text.split(/\s+/).filter(word => word.length > 0)
wordsOf(s) == SelectSeq(splitWhiteSpace(s), LAMBDA word : Len(word) > 0)

\* new jsPDF() with let yPosition = 30, for a page of the given size
newPdf(pageWidth, pageHeight) ==
    [called |-> FALSE,
     pageWidth |-> pageWidth,
     pageHeight |-> pageHeight,
     page |-> 1,
     yPosition |-> FirstLineY,
     font |-> HelveticaNormal,
     lines |-> <<>>]

\* const maxWidth = pageWidth - (margin * 2)
maxWidth(p) == p.pageWidth - (margin * 2)

\* const lineHeight = fontSize * 0.6
lineHeight(fontSize) == (fontSize * 6) \div 10

\* the segments of a line as pdf.text draws them from xPosition = x on,
\* each in its own font
RECURSIVE drawSegments(_, _, _)
drawSegments(line, k, x) ==
    IF k > Len(line) THEN <<>>
    ELSE << [text |-> line[k].text, x |-> x, font |-> drawFont(line[k])] >>
         \o drawSegments(line, k + 1,
                         x + getTextWidth(drawFont(line[k]), line[k].text))

\* the page check that never starts a page
pageFor_samePage(p) == p

\* if (yPosition > pdf.internal.pageSize.getHeight() - 20) { addPage ... }
pageFor(p) ==
    IF p.yPosition > p.pageHeight - PageFoot
    THEN [p EXCEPT !.page = @ + 1, !.yPosition = FirstLineY]
    ELSE p

\* flushLine, on the state st of one call of addFormattedText
flushLine(st, lay) ==
    IF st.currentLine = <<>> THEN st
    ELSE LET drawn(p, segments) ==
                 [pdf |-> [p EXCEPT
                             !.lines = Append(@, [page |-> p.page,
                                                  y |-> p.yPosition,
                                                  segments |-> segments]),
                             !.font = fontAfterDraw(st.currentLine[Len(st.currentLine)]),
                             !.yPosition = @ + lay.lineHeight],
                  currentLine |-> <<>>,
                  currentLineWidth |-> 0]
         IN  drawn(pageFor(st.pdf),
                   drawSegments(st.currentLine, 1, margin + lay.indent))

\* currentLineWidth = pdf.getTextWidth(word), after flushLine()
startWidth(st, word, fmt) == getTextWidth(st.pdf.font, word)

\* one iteration of words.forEach((word, index) => ...)
addWord(st, word, index, fmt, lay) ==
    LET wordWithSpace ==
            IF Len(st.currentLine) > 0 \/ index > 0 THEN <<SP>> \o word ELSE word
        segment(t) == [text |-> t, isBold |-> fmt.isBold,
                       isItalic |-> fmt.isItalic, isCode |-> fmt.isCode]
        selected == [st EXCEPT !.pdf.font = measureFont(fmt)]
        started(flushed) ==
            [flushed EXCEPT !.currentLine = Append(@, segment(word)),
                            !.currentLineWidth = startWidth(flushed, word, fmt)]
        placed(wordWidth) ==
            IF /\ st.currentLineWidth + wordWidth > lay.maxWidth - lay.indent
               /\ Len(st.currentLine) > 0
            THEN started(flushLine(selected, lay))
            ELSE [selected EXCEPT
                     !.currentLine = Append(@, segment(wordWithSpace)),
                     !.currentLineWidth = @ + wordWidth]
    IN  placed(getTextWidth(measureFont(fmt), wordWithSpace))

RECURSIVE addWords(_, _, _, _, _)
addWords(st, words, index, fmt, lay) ==
    IF index >= Len(words) THEN st
    ELSE LET next(r) == addWords(r, words, index + 1, fmt, lay)
         IN  next(addWord(st, words[index + 1], index, fmt, lay))

\* addToLine(text, isBold, isItalic, isCode)
addToLine(st, s, fmt, lay) == addWords(st, wordsOf(s), 0, fmt, lay)

Format(isBold, isItalic, isCode) ==
    [isBold |-> isBold, isItalic |-> isItalic, isCode |-> isCode]

\* the body of elements.forEach(element => { switch (element.type) ... })
addElement(st, element, lay) ==
    CASE element.type = "bold" ->
             addToLine(st, element.content, Format(TRUE, FALSE, FALSE), lay)
      [] element.type = "italic" ->
             addToLine(st, element.content, Format(FALSE, TRUE, FALSE), lay)
      [] element.type = "code" ->
             addToLine(st, element.content, Format(FALSE, FALSE, TRUE), lay)
      [] element.type = "header" ->
             LET spaced(r) == [r EXCEPT !.pdf.yPosition = @ + HeaderGap]
                 closed(r) == spaced(flushLine(r, lay))
                 titled(r) == closed(addToLine(r, element.content,
                                               Format(TRUE, FALSE, FALSE), lay))
             IN  titled(flushLine(st, lay))
      [] OTHER ->
             addToLine(st, element.content, Format(FALSE, FALSE, FALSE), lay)

RECURSIVE addElements(_, _, _, _)
addElements(st, els, k, lay) ==
    IF k > Len(els) THEN st
    ELSE LET next(r) == addElements(r, els, k + 1, lay)
         IN  next(addElement(st, els[k], lay))

\* addFormattedText(text, fontSize, indent) on the document p
addFormattedText(p, s, fontSize, indent) ==
    LET lay == [indent |-> indent,
                lineHeight |-> lineHeight(fontSize),
                maxWidth |-> maxWidth(p)]
        finished(r) == [r.pdf EXCEPT !.yPosition = @ + ParagraphGap,
                                     !.called = TRUE]
        flushed(r) == finished(flushLine(r, lay))
    IN  flushed(addElements([pdf |-> p, currentLine |-> <<>>,
                             currentLineWidth |-> 0],
                            parseMarkdown(s), 1, lay))

\* addFormattedText(paragraph.trim(), 10, 20) in the loop over the found
\* paragraphs
addParagraphText(p, par) ==
    addFormattedText(p, trim(par), ParagraphFontSize, ParagraphIndent)

(***************************************************************************)
(* exportToPdf: addWrappedText and the loop over the found paragraphs of a *)
(* result.                                                                 *)
(***************************************************************************)
WrappedGap == 5
ParagraphFoot == 40
LabelIndent == 10
LabelAdjust == 10

\* for (const line of lines) { page check; pdf.text(line, margin + indent,
\* yPosition); yPosition += fontSize * 0.6 }, from the k-th line on
RECURSIVE drawWrappedLines(_, _, _, _, _)
drawWrappedLines(p, lines, k, fontSize, indent) ==
    IF k > Len(lines) THEN p
    ELSE LET drawn(q) ==
                 [q EXCEPT !.lines = Append(@, [page |-> q.page,
                                                y |-> q.yPosition,
                                                segments |->
                                                   << [text |-> lines[k],
                                                       x |-> margin + indent,
                                                       font |-> q.font] >>]),
                           !.yPosition = @ + lineHeight(fontSize)]
             next(q) == drawWrappedLines(q, lines, k + 1, fontSize, indent)
         IN  next(drawn(pageFor(p)))

\* addWrappedText(text, fontSize, isBold, indent), for a text that
\* pdf.splitTextToSize returns as the given lines
addWrappedText(p, lines, fontSize, isBold, indent) ==
    LET spaced(q) == [q EXCEPT !.yPosition = @ + WrappedGap]
    IN  spaced(drawWrappedLines(
                   [p EXCEPT !.font = [name |-> "helvetica",
                                       style |-> IF isBold THEN "bold" ELSE "normal"]],
                   lines, 1, fontSize, indent))

\* the template string of the label, index + 1 followed by a dot and a blank
labelText(index) == toStringNat(index + 1) \o <<".", SP>>

\* if (yPosition > pdf.internal.pageSize.getHeight() - 40) { addPage ... }
pageForParagraph(p) ==
    IF p.yPosition > p.pageHeight - ParagraphFoot
    THEN [p EXCEPT !.page = @ + 1, !.yPosition = FirstLineY]
    ELSE p

\* the callback of result.foundParagraphs.forEach((paragraph, index) => ...);
\* the label is shorter than a line, so that splitTextToSize returns it whole
addFoundParagraph(p, par, index) ==
    LET adjusted(q) == addParagraphText([q EXCEPT !.yPosition = @ - LabelAdjust], par)
        labelled(q) ==
            adjusted(addWrappedText(q, <<labelText(index)>>, ParagraphFontSize,
                                    TRUE, LabelIndent))
    IN  labelled(pageForParagraph(p))

\* result.foundParagraphs.forEach, from index k (0-based) on
RECURSIVE addFoundParagraphs(_, _, _)
addFoundParagraphs(p, pars, k) ==
    IF k >= Len(pars) THEN p
    ELSE LET next(q) == addFoundParagraphs(q, pars, k + 1)
         IN  next(addFoundParagraph(p, pars[k + 1], k))

(***************************************************************************)
(* The application: state after construction and its handlers.             *)
(***************************************************************************)
Str_a == <<"a">>

FileOf(id, name, content) == [id |-> id, name |-> name, content |-> content]

FilePool ==
    { FileOf("f1", "one.md", <<"a", LF, LF, "b">>),
      FileOf("f2", "two.md", <<"x", PIPE, "a", PIPE, "b">>) }

\* an id that no loaded file has
MissingId == "f3"

MaxFiles == 2

\* lists of distinct files of the pool, at most MaxFiles long
FileLists ==
    {fs \in UNION {[1..k -> FilePool] : k \in 0..MaxFiles} :
        \A i, j \in 1..Len(fs) : i # j => fs[i] # fs[j]}

\* the id lists a caller can pass: SearchForm passes every loaded id; the
\* handler itself accepts any list, so there are also lists with an id that
\* is not loaded, first, last and between two others, and a repeated id
IdLists ==
    { <<>>, <<"f1">>, <<MissingId>>, <<"f1", "f2">>, <<"f2", "f1">>,
      <<MissingId, "f1">>, <<"f2", MissingId>>, <<"f1", MissingId, "f2">>,
      <<"f1", "f1">> }

\* terms: with hits, white space only, empty
AppTerms == {<<"a">>, <<SP>>, <<>>}

AppInit ==
    /\ files = <<>>
    /\ searchResults = <<>>
    /\ searchTerm = <<>>
    /\ isSearching = FALSE
    /\ debugInfo = <<>>
    /\ fileSourceMode = "data-folder"

HarnessIdle ==
    /\ text = <<>>
    /\ splitOut = NotCalled
    /\ paragraph = <<>>
    /\ term = <<>>
    /\ procOut = NotCalled
    /\ request = NotCalled
    /\ MarkdownIdle
    /\ ExportIdle
    /\ ComponentIdle

harnessVars == <<text, splitOut, paragraph, term, procOut, mdVars, exportVars,
                 componentVars>>

Init == AppInit /\ HarnessIdle

FilesUploaded ==
    \E fs \in FileLists :
        handleFilesUploaded(fs) /\ request' = NotCalled /\ UNCHANGED harnessVars

FilesSelected ==
    \E fs \in FileLists :
        handleFilesSelected(fs) /\ request' = NotCalled /\ UNCHANGED harnessVars

ModeChange ==
    \E mode \in {"upload", "data-folder"} :
        handleModeChange(mode) /\ request' = NotCalled /\ UNCHANGED harnessVars

Search ==
    \E t \in AppTerms, ids \in IdLists :
        /\ handleSearch(t, ids)
        /\ request' = requestOf(t, ids)
        /\ UNCHANGED harnessVars

Next == FilesUploaded \/ FilesSelected \/ ModeChange \/ Search

Spec == Init /\ [][Next]_vars

(***************************************************************************)
(* splitTextIntoParagraphs applied to bounded raw texts, and a search over *)
(* a single document holding that text.                                    *)
(***************************************************************************)
MaxTextLen == 5

TextChars == {"a", SP, LF, CR}

\* a line of `len` letters holding the letter a once
Line(len) == Str_a \o Repeat(<<"b">>, len - 1)

\* n such lines joined by sep
Lines(n, len, sep) == join(SeqOf([i \in 1..n |-> Line(len)], n), sep)

\* texts around the thresholds of the selection policy: about
\* TooManyParagraphs lines separated by single line feeds, with every line
\* about TinyParagraphLength long or with a short last line; one blank line
\* followed by such lines; and more than TooManyParagraphs short paragraphs
\* separated by blank lines
LongTexts ==
    { Lines(n, len, <<LF>>) : n \in {TooManyParagraphs, TooManyParagraphs + 1},
                              len \in {TinyParagraphLength - 1, TinyParagraphLength} }
    \cup { Lines(TooManyParagraphs, TinyParagraphLength, <<LF>>) \o <<LF>> \o Str_a }
    \cup { Str_a \o <<LF, LF>> \o Lines(n, 2, <<LF>>) :
               n \in {TooManyParagraphs - 1, TooManyParagraphs, TooManyParagraphs + 1} }
    \cup { Lines(TooManyParagraphs + 1, 1, <<LF, LF>>) }
    \cup { Str_a \o <<LF, LF>> \o Str_a \o <<LF, LF>>
               \o Lines(TooManyParagraphs + 1, 1, <<LF>>) }

SegmentTexts == StringsUpTo(TextChars, MaxTextLen) \cup LongTexts

DocId == "f1"
DocName == "doc.md"

InitSegment ==
    /\ text \in SegmentTexts
    /\ splitOut = NotCalled
    /\ paragraph = <<>>
    /\ term = Str_a
    /\ procOut = NotCalled
    /\ request = NotCalled
    /\ MarkdownIdle
    /\ ExportIdle
    /\ ComponentIdle
    /\ files = <<FileOf(DocId, DocName, text)>>
    /\ searchResults = <<>>
    /\ searchTerm = <<>>
    /\ isSearching = FALSE
    /\ debugInfo = <<>>
    /\ fileSourceMode = "upload"

CallSplit ==
    /\ splitOut = NotCalled
    /\ splitOut' = splitTextIntoParagraphs(text)
    /\ UNCHANGED <<text, paragraph, term, procOut, request, componentVars, mdVars,
                   exportVars>>
    /\ UNCHANGED appVars

SearchDoc ==
    /\ handleSearch(term, <<DocId>>)
    /\ request' = requestOf(term, <<DocId>>)
    /\ UNCHANGED harnessVars

NextSegment == CallSplit \/ SearchDoc

SpecSegment == InitSegment /\ [][NextSegment]_vars

(***************************************************************************)
(* processFoundParagraph applied to bounded paragraphs and terms.          *)
(***************************************************************************)
MaxParaLen == 5

ParaChars == {"a", "A", "b", PIPE, SP}

\* the scenario of the specification and of the function's own comment
ScenarioParagraph ==
    <<"I", "n", "t", "r", "o", SP, PIPE, SP, "h", "a", "s", SP, "s", "e",
    "a", "r", "c", "h", "t", "e", "r", "m", SP, "h", "e", "r", "e", SP,
    PIPE, SP, "n", "o", SP, "m", "a", "t", "c", "h", SP, PIPE, SP, "a", "l",
    "s", "o", SP, "s", "e", "a", "r", "c", "h", "t", "e", "r", "m">>
ScenarioTerm ==
    <<"s", "e", "a", "r", "c", "h", "t", "e", "r", "m">>
ScenarioOutput ==
    <<"I", "n", "t", "r", "o", SP, "h", "a", "s", SP, "s", "e", "a", "r",
    "c", "h", "t", "e", "r", "m", SP, "h", "e", "r", "e", SP, "a", "l", "s",
    "o", SP, "s", "e", "a", "r", "c", "h", "t", "e", "r", "m">>

\* a later section that holds the term "a a" and starts with its tail
SpacedParagraph == <<"a", PIPE, "a", SP, "a", SP, "a", PIPE>>
SpacedTerm == <<"a", SP, "a">>

\* a base section that ends with the head of the term "ab" and a later
\* section that holds the term and starts with its tail
AbuttingParagraph == <<"a", PIPE, "b", "a", "b", PIPE>>

Paragraphs ==
    StringsUpTo(ParaChars, MaxParaLen)
        \cup {ScenarioParagraph, SpacedParagraph, AbuttingParagraph}

\* raw terms as the caller passes them: upper case, surrounding blanks, an
\* inner blank, the pipe itself
RawTerms ==
    { <<"a">>, <<"A">>, <<"a", "b">>, <<SP, "a", SP>>, SpacedTerm, <<PIPE>>,
      ScenarioTerm }

InitRestructure ==
    /\ paragraph \in Paragraphs
    /\ term \in RawTerms
    /\ procOut = NotCalled
    /\ text = <<>>
    /\ splitOut = NotCalled
    /\ request = NotCalled
    /\ MarkdownIdle
    /\ ExportIdle
    /\ ComponentIdle
    /\ AppInit

CallProcess ==
    /\ procOut = NotCalled
    /\ procOut' = processFoundParagraph(paragraph, term, DocName, 1)
    /\ UNCHANGED <<text, splitOut, paragraph, term, request, componentVars, mdVars,
                   exportVars>>
    /\ UNCHANGED appVars

NextRestructure == CallProcess

SpecRestructure == InitRestructure /\ [][NextRestructure]_vars

(***************************************************************************)
(* A search over one document drawn from bounded texts, with bounded terms *)
(***************************************************************************)
MaxDocLen == 4

DocChars == {"a", "A", ".", PIPE, LF}

\* the no-match scenario of the specification
ParaDoc ==
    <<"p", "a", "r", "a", SP, "o", "n", "e", LF, LF, "p", "a", "r", "a", SP,
    "t", "w", "o", LF, LF, "p", "a", "r", "a", SP, "t", "h", "r", "e", "e">>

\* two paragraphs, the first with a dropped pipe section and two hits
PipeDoc == <<"A", PIPE, ".", PIPE, "a", "a", "a", LF, LF, ".", "a">>

\* three paragraphs, two of them with hits
MixedDoc == <<"a", "a", LF, LF, "b", LF, LF, "A", ".", "a">>

SearchDocs == StringsUpTo(DocChars, MaxDocLen) \cup {ParaDoc, PipeDoc, MixedDoc}

\* raw terms: upper case, a trailing blank, a repeated letter, the regular
\* expression characters . and |
SearchTerms ==
    { <<"a">>, <<"A", SP>>, <<"a", "a">>, <<".">>, <<"a", ".">>, <<PIPE>>,
      <<"a", PIPE>>, ScenarioTerm }

InitSearch ==
    /\ text \in SearchDocs
    /\ term \in SearchTerms
    /\ splitOut = NotCalled
    /\ paragraph = <<>>
    /\ procOut = NotCalled
    /\ request = NotCalled
    /\ MarkdownIdle
    /\ ExportIdle
    /\ ComponentIdle
    /\ files = <<FileOf(DocId, DocName, text)>>
    /\ searchResults = <<>>
    /\ searchTerm = <<>>
    /\ isSearching = FALSE
    /\ debugInfo = <<>>
    /\ fileSourceMode = "upload"

NextSearch == SearchDoc

SpecSearch == InitSearch /\ [][NextSearch]_vars

(***************************************************************************)
(* parseMarkdown applied to bounded fragments, one loop iteration per step *)
(***************************************************************************)
MaxFragmentLen == 4

FragmentChars == {STAR, TICK, HASH, "a", SP, LF}

\* the fragment **X** P *Y* Q 'Z' with a code span around Z
ShapeOf(X, P, Y, Q, Z) ==
    <<STAR, STAR>> \o X \o <<STAR, STAR>> \o P \o <<STAR>> \o Y \o <<STAR>> \o Q
        \o <<TICK>> \o Z \o <<TICK>>

Words == {<<"a">>, <<"b", "a">>}
PlainTexts == {<<>>, <<SP>>, <<SP, "a", LF, "a">>}

Word_bold == <<"b", "o", "l", "d">>
Word_italic == <<"i", "t", "a", "l", "i", "c">>
Word_code == <<"c", "o", "d", "e">>
Text_and == <<SP, "a", "n", "d", SP>>

\* the scenario of the specification
ScenarioFragment == ShapeOf(Word_bold, Text_and, Word_italic, Text_and, Word_code)

\* the parts <<X, P, Y, Q, Z>> of the fragments of that shape
ShapeParts ==
    (Words \X PlainTexts \X Words \X PlainTexts \X Words)
        \cup {<<Word_bold, Text_and, Word_italic, Text_and, Word_code>>}

ShapeFragments == {ShapeOf(t[1], t[2], t[3], t[4], t[5]) : t \in ShapeParts}

\* unterminated and nested markers, a header after a line break, a header
\* whose text is on the next line, seven hashes
MarkerFragments ==
    { <<STAR, "a", STAR, STAR, "a">>,
      <<STAR, STAR, "a", STAR, STAR, STAR, "a", STAR>>,
      <<"a", LF, HASH, SP, "a">>,
      <<HASH, SP, LF, "a", LF, HASH, HASH, SP, "a">>,
      <<HASH, HASH, HASH, HASH, HASH, HASH, HASH, SP, "a">>,
      <<TICK, "a", STAR, TICK, STAR>> }

Fragments ==
    StringsUpTo(FragmentChars, MaxFragmentLen) \cup ShapeFragments
        \cup MarkerFragments

InitMarkdown ==
    /\ fragment \in Fragments
    /\ currentIndex = 0
    /\ elements = <<>>
    /\ text = <<>>
    /\ splitOut = NotCalled
    /\ paragraph = <<>>
    /\ term = <<>>
    /\ procOut = NotCalled
    /\ request = NotCalled
    /\ ExportIdle
    /\ ComponentIdle
    /\ AppInit

ParseStep ==
    /\ currentIndex < Len(fragment)
    /\ LET stepped(r) == /\ currentIndex' = r.currentIndex
                         /\ elements' = r.elements
       IN  stepped(parseStep(fragment, currentIndex, elements))
    /\ UNCHANGED <<fragment, text, splitOut, paragraph, term, procOut, request,
                   componentVars,
                   exportVars>>
    /\ UNCHANGED appVars

NextMarkdown == ParseStep

SpecMarkdown == InitMarkdown /\ [][NextMarkdown]_vars

\* the loop runs on while its condition holds
SpecMarkdownLive == InitMarkdown /\ [][NextMarkdown]_vars /\ WF_vars(ParseStep)

(***************************************************************************)
(* A search over every loaded file followed by an export.                  *)
(***************************************************************************)
\* documents with: a paragraph with markup, one that starts with a blank and
\* one without the term; no paragraph with the term; one bold paragraph;
\* pipe sections with an empty first one
ExportPool ==
    { FileOf("e1", "one.md", <<STAR, "a", STAR, SP, "b", LF, LF, SP, "a", LF, LF, "b">>),
      FileOf("e2", "two.md", <<"b">>),
      FileOf("e3", "three.md", <<STAR, STAR, "a", STAR, STAR>>),
      FileOf("e4", "four.md", <<PIPE, "a", PIPE, HASH, SP, "a">>) }

MaxExportFiles == 2

\* the loaded files: any list from the pool, a file twice included
ExportFileLists == UNION {[1..k -> ExportPool] : k \in 1..MaxExportFiles}

ExportTerms == {<<"a">>, <<"b">>}

InitExport ==
    /\ files \in ExportFileLists
    /\ term \in ExportTerms
    /\ searchResults = <<>>
    /\ searchTerm = <<>>
    /\ isSearching = FALSE
    /\ debugInfo = <<>>
    /\ fileSourceMode = "upload"
    /\ text = <<>>
    /\ splitOut = NotCalled
    /\ paragraph = <<>>
    /\ procOut = NotCalled
    /\ request = NotCalled
    /\ MarkdownIdle
    /\ ExportIdle
    /\ ComponentIdle

\* SearchForm.handleSubmit: every loaded file is searched
SearchAll ==
    LET allFileIds == SeqOf([i \in 1..Len(files) |-> files[i].id], Len(files))
    IN  /\ searchResults = <<>>
        /\ handleSearch(term, allFileIds)
        /\ request' = requestOf(term, allFileIds)
        /\ UNCHANGED harnessVars

ExportDocx ==
    /\ docx = NotCalled
    /\ handleExportDocx
    /\ UNCHANGED <<text, splitOut, paragraph, term, procOut, request,
                   componentVars, mdVars, pdf>>
    /\ UNCHANGED appVars

NextExport == SearchAll \/ ExportDocx

SpecExport == InitExport /\ [][NextExport]_vars

(***************************************************************************)
(* addFormattedText applied to bounded paragraphs on pages of bounded      *)
(* width.                                                                  *)
(***************************************************************************)
\* the pieces a paragraph is put together from: words of narrow and of wide
\* letters, blanks, and words in bold, in italics and in code
WrapPieces ==
    { <<"a">>, <<"i", "i", "i">>, <<SP>>, <<SP, "i">>,
      <<STAR, STAR, "i", "i", STAR, STAR>>,
      <<STAR, "a", STAR>>,
      <<TICK, "i", "i", "i", SP, "i", TICK>>,
      <<HASH, SP, "a", SP, "i", LF>> }

MaxPieces == 3

RECURSIVE Concat(_, _)
Concat(ps, k) == IF k = 0 THEN <<>> ELSE Concat(ps, k - 1) \o ps[k]

WrapParagraphs ==
    {Concat(ps, Len(ps)) : ps \in UNION {[1..k -> WrapPieces] : k \in 1..MaxPieces}}

\* page widths that leave room for two to four letters on a line
PageWidths == {72, 78, 84}

\* a page that holds one line, one that holds three, and the page of the
\* default format
PageHeights == {50, 62, 297}

InitWrap ==
    /\ paragraph \in WrapParagraphs
    /\ pdf \in {newPdf(w, h) : w \in PageWidths, h \in PageHeights}
    /\ AppInit
    /\ text = <<>>
    /\ splitOut = NotCalled
    /\ term = <<>>
    /\ procOut = NotCalled
    /\ request = NotCalled
    /\ MarkdownIdle
    /\ ComponentIdle
    /\ docx = NotCalled

AddFormattedText ==
    /\ ~pdf.called
    /\ pdf' = addParagraphText(pdf, paragraph)
    /\ UNCHANGED <<text, splitOut, paragraph, term, procOut, request,
                   componentVars, mdVars, docx>>
    /\ UNCHANGED appVars

NextWrap == AddFormattedText

SpecWrap == InitWrap /\ [][NextWrap]_vars

(***************************************************************************)
(* The loop of exportToPdf over the found paragraphs of one result, on     *)
(* pages of bounded size with the cursor at the top of a page.             *)
(***************************************************************************)
\* found paragraphs of one word, of two lines, of several runs, with a
\* header, and with blanks around
PageParagraphs ==
    { <<"a">>,
      <<"i", "i", "i", SP, "a", SP, "a">>,
      <<"u", "n", STAR, STAR, "b", STAR, STAR, "a">>,
      <<TICK, "i", "i", "i", SP, "i", TICK, "a">>,
      <<HASH, SP, "a", LF, "i", SP, "i">>,
      <<SP, "a", SP, "i", SP>> }

MaxPageParagraphs == 2

PageParagraphLists ==
    UNION {[1..k -> PageParagraphs] : k \in 1..MaxPageParagraphs}

InitPages ==
    /\ searchResults \in
          { << [fileName |-> DocName, foundParagraphs |-> ps,
                totalParagraphs |-> Len(ps), occurrenceCount |-> Len(ps)] >> :
              ps \in PageParagraphLists }
    /\ pdf \in {newPdf(w, h) : w \in PageWidths, h \in PageHeights}
    /\ files = <<>>
    /\ searchTerm = Str_a
    /\ isSearching = FALSE
    /\ debugInfo = <<>>
    /\ fileSourceMode = "upload"
    /\ text = <<>>
    /\ splitOut = NotCalled
    /\ paragraph = <<>>
    /\ term = <<>>
    /\ procOut = NotCalled
    /\ request = NotCalled
    /\ MarkdownIdle
    /\ ComponentIdle
    /\ docx = NotCalled

AddFoundParagraphs ==
    /\ ~pdf.called
    /\ pdf' = addFoundParagraphs(pdf, searchResults[1].foundParagraphs, 0)
    /\ UNCHANGED <<text, splitOut, paragraph, term, procOut, request,
                   componentVars, mdVars, docx>>
    /\ UNCHANGED appVars

NextPages == AddFoundParagraphs

SpecPages == InitPages /\ [][NextPages]_vars

(***************************************************************************)
(* The application with handleSearch taken statement by statement: a call  *)
(* runs to its end before the next handler starts.                         *)
(***************************************************************************)
InProgress == request.called /\ request.at \in {"try", "finally"}

LoadingFilesUploaded == ~InProgress /\ FilesUploaded

LoadingModeChange == ~InProgress /\ ModeChange

SearchBegin ==
    /\ ~InProgress
    /\ \E t \in AppTerms, ids \in IdLists :
          IF rejectsSearch(t, ids)
          THEN UNCHANGED appVars /\ request' = callOf(t, ids, "rejected", FALSE)
          ELSE beginSearch(t, ids) /\ request' = callOf(t, ids, "try", FALSE)
    /\ UNCHANGED harnessVars

SearchTry ==
    /\ request.called /\ request.at = "try"
    /\ trySearch(request.out)
    /\ request' = [request EXCEPT !.at = "finally"]
    /\ UNCHANGED harnessVars

SearchThrow ==
    /\ request.called /\ request.at = "try"
    /\ throwSearch
    /\ request' = [request EXCEPT !.at = "finally", !.failed = TRUE]
    /\ UNCHANGED harnessVars

SearchFinally ==
    /\ request.called /\ request.at = "finally"
    /\ finallySearch(request.failed)
    /\ request' = [request EXCEPT !.at = "done"]
    /\ UNCHANGED harnessVars

NextLoading ==
    \/ LoadingFilesUploaded
    \/ LoadingModeChange
    \/ SearchBegin
    \/ SearchTry
    \/ SearchThrow
    \/ SearchFinally

\* a call that has started goes on to its end
SpecLoadingLive ==
    /\ Init
    /\ [][NextLoading]_vars
    /\ WF_vars(SearchTry \/ SearchThrow)
    /\ WF_vars(SearchFinally)

(***************************************************************************)
(* Properties                                                              *)
(***************************************************************************)
\* number of pipe characters of p
PipeCount(p) == Cardinality({i \in 1..Len(p) : p[i] = PIPE})

\* position of the k-th pipe character of p
PipeAt(p, k) ==
    CHOOSE i \in 1..Len(p) :
        p[i] = PIPE /\ Cardinality({j \in 1..i : p[j] = PIPE}) = k

\* the k-th pipe-delimited section of p, trimmed
SectionOf(p, k) ==
    trim(SubSeq(p, IF k = 1 THEN 1 ELSE PipeAt(p, k - 1) + 1,
                   IF k = PipeCount(p) + 1 THEN Len(p) ELSE PipeAt(p, k) - 1))

\* the first section and the later sections that contain t, in order, each
\* later one preceded by one blank
RECURSIVE JoinKept(_, _, _)
JoinKept(p, t, k) ==
    IF k > PipeCount(p) + 1 THEN <<>>
    ELSE IF k = 1 THEN SectionOf(p, 1) \o JoinKept(p, t, 2)
    ELSE IF includes(toLowerCase(SectionOf(p, k)), t)
         THEN <<SP>> \o SectionOf(p, k) \o JoinKept(p, t, k + 1)
         ELSE JoinKept(p, t, k + 1)

\* number of non-overlapping occurrences of t in s, scanning left to right
RECURSIVE OccurrencesFrom(_, _, _)
OccurrencesFrom(s, t, from) ==
    LET idx == indexOf(s, t, from)
    IN  IF idx = 0 THEN 0 ELSE 1 + OccurrencesFrom(s, t, idx + Len(t))

Occurrences(s, t) == OccurrencesFrom(s, t, 1)

Processed == procOut.called

\* C1: a paragraph with at least two pipes is restructured to the trimmed
\* first section followed, each after one blank and in the original order, by
\* exactly the trimmed later sections whose lower-cased text contains the
\* normalized term; the scenario paragraph gives the scenario output.
C1_RestructureKeepsMatchingSections ==
    (Processed /\ PipeCount(paragraph) >= 2) =>
        /\ procOut.processed = JoinKept(paragraph, normalizeTerm(term), 1)
        /\ (paragraph = ScenarioParagraph /\ term = ScenarioTerm
               => procOut.processed = ScenarioOutput)

\* the scenario has been restructured: its first section lacks the term and
\* is kept, its third section is dropped
C1_Witness ==
    /\ Processed
    /\ paragraph = ScenarioParagraph
    /\ term = ScenarioTerm
    /\ procOut.processed = ScenarioOutput

\* C2: a paragraph with fewer than two pipes is returned character for
\* character.
C2_FewPipesUnchanged ==
    (Processed /\ PipeCount(paragraph) < 2) => procOut.processed = paragraph

\* a paragraph with exactly one pipe, a leading blank and an upper-case
\* letter has been processed
C2_Witness ==
    /\ Processed
    /\ PipeCount(paragraph) = 1
    /\ Len(paragraph) >= 3
    /\ paragraph[1] = SP
    /\ \E i \in 1..Len(paragraph) : paragraph[i] = "A"
    /\ procOut.processed = paragraph

\* C6 as stated: for every paragraph and every (non-empty) normalized term,
\* the restructured text has no more occurrences of the term than the
\* original.
C6_NeverAddsMatches ==
    (Processed /\ normalizeTerm(term) # <<>>) =>
        Occurrences(toLowerCase(procOut.processed), normalizeTerm(term))
            <= Occurrences(toLowerCase(paragraph), normalizeTerm(term))

\* C6 amended: for every paragraph and every non-empty normalized term that
\* contains no space character, the restructured text has no more
\* occurrences of the term than the original.
C6_NeverAddsMatchesWithoutSpace ==
    (Processed /\ normalizeTerm(term) # <<>> /\ ~includes(normalizeTerm(term), <<SP>>)) =>
        Occurrences(toLowerCase(procOut.processed), normalizeTerm(term))
            <= Occurrences(toLowerCase(paragraph), normalizeTerm(term))

\* a triggered restructuring that kept a later section with the space-free
\* term and dropped another section
C6_Witness ==
    /\ Processed
    /\ PipeCount(paragraph) >= 2
    /\ ~includes(normalizeTerm(term), <<SP>>)
    /\ \E k \in 2..(PipeCount(paragraph) + 1) :
          ~includes(toLowerCase(SectionOf(paragraph, k)), normalizeTerm(term))
    /\ Occurrences(toLowerCase(procOut.processed), normalizeTerm(term)) = 2
    /\ Occurrences(toLowerCase(paragraph), normalizeTerm(term)) = 2

Searched == searchTerm # <<>>

\* the paragraphs of the document and those with at least one occurrence
DocParagraphs == splitTextIntoParagraphs(text).paragraphs

Matching(ps, t) == SelectSeq(ps, LAMBDA p : Occurrences(toLowerCase(p), t) > 0)

RECURSIVE SumOccurrences(_, _)
SumOccurrences(ps, t) ==
    IF ps = <<>> THEN 0
    ELSE Occurrences(toLowerCase(Head(ps)), t) + SumOccurrences(Tail(ps), t)

\* C3: found_paragraphs holds, in source order, one entry (the restructured
\* text) for exactly the paragraphs whose original text has an occurrence
\* count above 0; total_paragraph_count is the number of segmented
\* paragraphs; with no matching paragraph there are 0 found and 0
\* occurrences (the three-paragraph scenario: 3, 0, 0).
C3_FoundIffOccurs ==
    Searched =>
        LET r == searchResults[1]
            m == Matching(DocParagraphs, normalizeTerm(term))
        IN  /\ Len(searchResults) = 1
            /\ r.totalParagraphs = Len(DocParagraphs)
            /\ Len(r.foundParagraphs) = Len(m)
            /\ \A i \in 1..Len(m) :
                  r.foundParagraphs[i]
                      = processFoundParagraph(m[i], term, DocName, 1).processed
            /\ (m = <<>> => r.foundParagraphs = <<>> /\ r.occurrenceCount = 0)
            /\ (text = ParaDoc /\ term = ScenarioTerm =>
                   /\ r.totalParagraphs = 3
                   /\ r.foundParagraphs = <<>>
                   /\ r.occurrenceCount = 0)

\* a search that found the second of two paragraphs only, written in upper
\* case, and the no-match scenario
C3_Witness ==
    /\ Searched
    /\ Len(DocParagraphs) = 2
    /\ Len(searchResults[1].foundParagraphs) = 1
    /\ searchResults[1].foundParagraphs[1] = DocParagraphs[2]
    /\ includes(DocParagraphs[2], <<"A">>)
    /\ ~includes(DocParagraphs[2], <<"a">>)

\* C4: occurrence_count is the sum over the matching paragraphs of the
\* non-overlapping left-to-right occurrences of the normalized term in the
\* lower-cased original paragraph, every character of the term literal.
C4_OccurrenceCountIsLiteralSum ==
    Searched =>
        searchResults[1].occurrenceCount
            = SumOccurrences(Matching(DocParagraphs, normalizeTerm(term)),
                             normalizeTerm(term))

\* the term "aa" counted once in "aaa", inside a paragraph whose middle pipe
\* section is dropped
C4_Witness ==
    /\ Searched
    /\ text = PipeDoc
    /\ term = <<"a", "a">>
    /\ searchResults[1].occurrenceCount = 1
    /\ searchResults[1].foundParagraphs = << <<"A", SP, "a", "a", "a">> >>

\* C5: occurrence_count >= number of found paragraphs <= total paragraphs.
C5_CountsOrdered ==
    Searched =>
        /\ searchResults[1].occurrenceCount >= Len(searchResults[1].foundParagraphs)
        /\ Len(searchResults[1].foundParagraphs) <= searchResults[1].totalParagraphs

\* two found paragraphs out of three, with more occurrences than paragraphs
C5_Witness ==
    /\ Searched
    /\ Len(searchResults[1].foundParagraphs) = 2
    /\ searchResults[1].occurrenceCount > 2
    /\ searchResults[1].totalParagraphs > 2

Segmented == splitOut.called

Candidates == methods(normalizeLineEndings(text))

HasTiny(ps) == \E i \in 1..Len(ps) : Len(ps[i]) < TinyParagraphLength

\* the condition under which the single-line-break candidate is returned
SingleWins ==
    /\ Len(Candidates[1].result) < FewParagraphs
    /\ Len(Candidates[2].result) > Len(Candidates[1].result)
    /\ ~(Len(Candidates[2].result) > TooManyParagraphs /\ HasTiny(Candidates[2].result))

IsBlank(t) == \A i \in 1..Len(t) : t[i] \in WhiteSpace

\* C8: an empty or whitespace-only text is segmented into no paragraph, and
\* a search over it reports 0 paragraphs and finds none.
C8_BlankTextHasNoParagraphs ==
    IsBlank(text) =>
        /\ (Segmented => splitOut.paragraphs = <<>>)
        /\ (Searched => /\ Len(searchResults) = 1
                        /\ searchResults[1].totalParagraphs = 0
                        /\ searchResults[1].foundParagraphs = <<>>)

\* a text mixing blanks and line breaks has been segmented and searched
C8_Witness ==
    /\ IsBlank(text)
    /\ includes(text, <<SP>>) /\ includes(text, <<LF>>) /\ includes(text, <<CR>>)
    /\ Segmented
    /\ splitOut.paragraphs = <<>>
    /\ Searched
    /\ searchResults[1].totalParagraphs = 0

NoLineBreak(t) == ~includes(t, <<LF>>) /\ ~includes(t, <<CR>>)

\* every candidate reports one paragraph, the whole text, and it is returned
OneParagraphEverywhere ==
    /\ \A k \in 1..4 :
          /\ splitOut.splitInfo.splitMethods[k].paragraphCount = 1
          /\ splitOut.splitInfo.splitMethods[k].sample = <<text>>
    /\ splitOut.paragraphs = <<text>>

\* C9 as stated: a text without any line break gives exactly one paragraph,
\* the whole text, under each of the four candidates.
C9_NoLineBreakOneParagraph ==
    (Segmented /\ NoLineBreak(text)) => OneParagraphEverywhere

\* C9 amended: a text without any line break that has at least one
\* non-whitespace character gives exactly one paragraph, the whole text
\* (untrimmed), under each of the four candidates.
C9_NoLineBreakNonBlankOneParagraph ==
    (Segmented /\ NoLineBreak(text) /\ ~IsBlank(text)) => OneParagraphEverywhere

\* a text without line breaks, with blanks around its letters, segmented
C9_Witness ==
    /\ Segmented
    /\ NoLineBreak(text)
    /\ Len(text) >= 3
    /\ text[1] = SP /\ text[Len(text)] = SP
    /\ splitOut.paragraphs = <<text>>

(***************************************************************************)
(* Properties of handleSearch over the loaded files and a request list.    *)
(***************************************************************************)
Requested == request.called

\* the request has a blank term or no id
BlankRequest(r) == IsBlank(r.term) \/ r.selectedFileIds = <<>>

LoadedIds == {files[i].id : i \in 1..Len(files)}

\* the name of the first loaded file with this id
NameOf(id) == files[CHOOSE i \in 1..Len(files) :
                       files[i].id = id /\ \A j \in 1..(i - 1) : files[j].id # id].name

\* C11: a search whose term is empty or white space only, or whose id list
\* is empty, leaves searchResults, debugInfo, searchTerm and isSearching as
\* they were, and hands no document to the segmentation.
C11_RejectedSearchDoesNothing ==
    [][(request'.called /\ BlankRequest(request'))
         => /\ UNCHANGED <<searchResults, debugInfo, searchTerm, isSearching>>
            /\ request'.segmented = <<>>]_vars

\* a white-space-only term with ids, and a term with no ids, each after a
\* search that left results behind
C11_Witness ==
    /\ Requested
    /\ \/ request.term = <<SP>> /\ request.selectedFileIds # <<>>
       \/ request.term = Str_a /\ request.selectedFileIds = <<>>
    /\ files # <<>>
    /\ searchResults # <<>>
    /\ debugInfo # <<>>
    /\ searchTerm = Str_a

\* the requested ids that are loaded, in request order
LoadedRequested == SelectSeq(request.selectedFileIds, LAMBDA id : id \in LoadedIds)

\* C12: an accepted search has one result entry per requested id that is
\* loaded, in request order; an id that is not loaded adds no entry and the
\* ids after it are still processed.
C12_OneResultPerLoadedId ==
    (Requested /\ ~BlankRequest(request)) =>
        /\ Len(searchResults) = Len(LoadedRequested)
        /\ \A k \in 1..Len(searchResults) :
              searchResults[k].fileName = NameOf(LoadedRequested[k])

\* a request with an id that is not loaded between two that are
C12_Witness ==
    /\ Requested
    /\ request.term = Str_a
    /\ request.selectedFileIds = <<"f1", MissingId, "f2">>
    /\ Len(files) = 2
    /\ Len(searchResults) = 2
    /\ searchResults[2].fileName = "two.md"

\* the debug entries the loop pushes for the documents it found: one for
\* the file and one per found paragraph
RECURSIVE EntriesOfLoaded(_)
EntriesOfLoaded(k) ==
    IF k = 0 THEN 0
    ELSE 1 + Len(searchResults[k].foundParagraphs) + EntriesOfLoaded(k - 1)

MissingRequested ==
    Len(request.selectedFileIds) - Len(LoadedRequested)

\* C13 as stated: an accepted search leaves in debugInfo, besides the
\* entries of the documents it found, an entry for every requested id that
\* has no loaded document.
C13_MissingIdHasDiagnostic ==
    (Requested /\ ~BlankRequest(request)) =>
        Len(debugInfo) >= EntriesOfLoaded(Len(searchResults)) + MissingRequested

(***************************************************************************)
(* Properties of parseMarkdown.                                            *)
(***************************************************************************)
ParseDone == fragment # <<>> /\ currentIndex >= Len(fragment)

Strong(c) == [type |-> "bold", content |-> c]
Emphasis(c) == [type |-> "italic", content |-> c]
Code(c) == [type |-> "code", content |-> c]
Plain(c) == [type |-> "text", content |-> c]

\* C14 as stated: the fragment **X** P *Y* Q 'Z' (Z in a code span), with X,
\* Y, Z non-empty words and P, Q any marker-free text, is parsed to
\* [Strong(X), Plain(P), Emphasis(Y), Plain(Q), Code(Z)].
C14_ShapeTokenized ==
    (ParseDone /\ fragment \in ShapeFragments) =>
        \A t \in ShapeParts :
            fragment = ShapeOf(t[1], t[2], t[3], t[4], t[5]) =>
                elements = <<Strong(t[1]), Plain(t[2]), Emphasis(t[3]), Plain(t[4]),
                             Code(t[5])>>

\* C14 amended: the same with P and Q non-empty.
C14_ShapeTokenizedNonEmptyPlain ==
    (ParseDone /\ fragment \in ShapeFragments) =>
        \A t \in ShapeParts :
            (fragment = ShapeOf(t[1], t[2], t[3], t[4], t[5])
                 /\ t[2] # <<>> /\ t[4] # <<>>) =>
                elements = <<Strong(t[1]), Plain(t[2]), Emphasis(t[3]), Plain(t[4]),
                             Code(t[5])>>

\* the scenario fragment parsed to its end
C14_Witness ==
    /\ ParseDone
    /\ fragment = ScenarioFragment
    /\ Len(elements) = 5
    /\ elements[3] = Emphasis(Word_italic)

AllIn(s, cs) == \A i \in 1..Len(s) : s[i] \in cs

\* the piece of the fragment that starts after position pos and is n long
\* is element e with its markers: the pair around bold, italic and code,
\* the hashes and the white space before a header, nothing around text
SpelledBy(e, pos, n) ==
    LET piece == SubSeq(fragment, pos + 1, pos + n)
    IN  /\ pos + n <= Len(fragment)
        /\ CASE e.type = "text" -> piece = e.content
             [] e.type = "bold" -> piece = <<STAR, STAR>> \o e.content \o <<STAR, STAR>>
             [] e.type = "italic" -> piece = <<STAR>> \o e.content \o <<STAR>>
             [] e.type = "code" -> piece = <<TICK>> \o e.content \o <<TICK>>
             [] e.type = "header" ->
                    /\ n > e.level + Len(e.content)
                    /\ AllIn(SubSeq(piece, 1, e.level), {HASH})
                    /\ AllIn(SubSeq(piece, e.level + 1, n - Len(e.content)), WhiteSpace)
                    /\ SubSeq(piece, n - Len(e.content) + 1, n) = e.content

\* the elements from the k-th on spell the fragment from pos to the cursor
RECURSIVE SpellsFrom(_, _)
SpellsFrom(k, pos) ==
    IF k > Len(elements) THEN pos = currentIndex
    ELSE \E n \in 1..(Len(fragment) - pos) :
            SpelledBy(elements[k], pos, n) /\ SpellsFrom(k + 1, pos + n)

RECURSIVE ContentsFrom(_)
ContentsFrom(k) ==
    IF k > Len(elements) THEN <<>> ELSE elements[k].content \o ContentsFrom(k + 1)

\* C15: the elements pushed so far, each with the markers of its construct
\* put back, spell the fragment up to the cursor, so the contents in order
\* are the fragment without those markers; when every element is plain
\* text the contents are the fragment itself.
C15_ContentsAreFragmentMinusMarkers ==
    /\ SpellsFrom(1, 0)
    /\ (ParseDone /\ \A k \in 1..Len(elements) : elements[k].type = "text")
           => ContentsFrom(1) = fragment

\* a fragment parsed to its end with plain text and a header whose white
\* space was dropped
C15_Witness ==
    /\ ParseDone
    /\ Len(elements) = 2
    /\ elements[1].type = "text"
    /\ elements[2].type = "header"
    /\ Len(ContentsFrom(1)) = Len(fragment) - 2

\* C16: every iteration moves the cursor forward, the cursor never passes
\* the end of the fragment, and the scan ends with the cursor at the end.
C16_ScanAdvancesAndEnds ==
    /\ [][currentIndex' > currentIndex]_mdVars
    /\ [](currentIndex <= Len(fragment))
    /\ <>(currentIndex = Len(fragment))

\* an opening marker without its closing one, parsed to the end
C16_Witness ==
    /\ ParseDone
    /\ fragment = <<STAR, "a", STAR, STAR, "a">>
    /\ Len(elements) = 3

(***************************************************************************)
(* Restructuring as deletion.                                              *)
(***************************************************************************)
\* the paragraph with every pipe replaced by a blank
PipesAsBlanks(p) == SeqOf([i \in 1..Len(p) |-> IF p[i] = PIPE THEN SP ELSE p[i]], Len(p))

\* out from its i-th character on is left when characters of s from its
\* j-th on are deleted
RECURSIVE LeftByDeleting(_, _, _, _)
LeftByDeleting(out, i, s, j) ==
    IF i > Len(out) THEN TRUE
    ELSE IF \E k \in j..Len(s) : s[k] = out[i]
         THEN LeftByDeleting(out, i + 1, s,
                             MinOf({k \in j..Len(s) : s[k] = out[i]}) + 1)
         ELSE FALSE

\* C17: the restructured paragraph is what is left of the original when
\* characters are deleted and the pipe before each kept section becomes one
\* blank: it is no longer than the original, keeps the order, and holds no
\* character that the original lacks, the joining blanks aside.
C17_RestructureOnlyDeletes ==
    Processed =>
        /\ Len(procOut.processed) <= Len(paragraph)
        /\ \/ procOut.processed = paragraph
           \/ LeftByDeleting(procOut.processed, 1, PipesAsBlanks(paragraph), 1)
        /\ \A i \in 1..Len(procOut.processed) :
              \/ procOut.processed[i] = SP
              \/ \E j \in 1..Len(paragraph) : paragraph[j] = procOut.processed[i]

\* a triggered restructuring that kept a later section and dropped one
C17_Witness ==
    /\ Processed
    /\ paragraph = ScenarioParagraph
    /\ term = ScenarioTerm
    /\ procOut.processed # paragraph
    /\ Len(procOut.processed) = Len(paragraph) - 15

(***************************************************************************)
(* Properties of exportToDocx.                                             *)
(***************************************************************************)
Exported == docx.called

\* the positions, in order, of the children of this kind
PositionsOf(kind) ==
    SelectSeq(SeqOf([i \in 1..Len(docx.children) |-> i], Len(docx.children)),
              LAMBDA i : docx.children[i].kind = kind)

\* the children from the k-th source heading up to the next one
GroupOf(k) ==
    LET src == PositionsOf("source")
    IN  SubSeq(docx.children, src[k],
               IF k < Len(src) THEN src[k + 1] - 1 ELSE Len(docx.children))

BlocksOf(k) == SelectSeq(GroupOf(k), LAMBDA b : b.kind = "paragraph")

\* groups in result order, and one page break at the end of every group but
\* the last
GroupsAndBreaks ==
    /\ Len(PositionsOf("source")) = Len(searchResults)
    /\ \A k \in 1..Len(searchResults) :
          /\ GroupOf(k)[1].fileName = searchResults[k].fileName
          /\ Len(BlocksOf(k)) = Len(searchResults[k].foundParagraphs)
          /\ (GroupOf(k)[Len(GroupOf(k))].kind = "pageBreak") <=> (k < Len(searchResults))
    /\ Len(PositionsOf("pageBreak")) = Len(searchResults) - 1

\* C18 as stated: groups in result order, in each group one block per found
\* paragraph in found order, each block made of the label with its 1-based
\* ordinal and then the runs of the parsed paragraph, and one page break
\* after every group but the last.
C18_DocxGroupsBlocksBreaks ==
    Exported =>
        /\ GroupsAndBreaks
        /\ \A k \in 1..Len(searchResults) :
              \A j \in 1..Len(BlocksOf(k)) :
                 /\ BlocksOf(k)[j].children[1].text = toStringNat(j) \o <<".", SP>>
                 /\ Tail(BlocksOf(k)[j].children)
                        = createDocxTextRuns(
                              parseMarkdown(searchResults[k].foundParagraphs[j]))

\* C18 amended: the same, the runs being those of the paragraph with its
\* leading and trailing white space removed.
C18_DocxGroupsTrimmedBlocksBreaks ==
    Exported =>
        /\ GroupsAndBreaks
        /\ \A k \in 1..Len(searchResults) :
              \A j \in 1..Len(BlocksOf(k)) :
                 /\ BlocksOf(k)[j].children[1].text = toStringNat(j) \o <<".", SP>>
                 /\ Tail(BlocksOf(k)[j].children)
                        = createDocxTextRuns(
                              parseMarkdown(trim(searchResults[k].foundParagraphs[j])))

\* two documents exported, the first with two found paragraphs of which one
\* holds markup, one page break between the groups
C18_Witness ==
    /\ Exported
    /\ Len(searchResults) = 2
    /\ Len(BlocksOf(1)) = 2
    /\ Len(BlocksOf(1)[1].children) = 3
    /\ BlocksOf(1)[2].children[1].text = <<"2", ".", SP>>
    /\ Len(PositionsOf("pageBreak")) = 1
    /\ Len(BlocksOf(2)) = 1

(***************************************************************************)
(* Properties of addFormattedText.                                         *)
(***************************************************************************)
\* the words of all elements, in order
RECURSIVE sourceWords(_, _)
sourceWords(els, k) ==
    IF k > Len(els) THEN <<>>
    ELSE wordsOf(els[k].content) \o sourceWords(els, k + 1)

\* a drawn segment without the blank that separates it from the one before
wordOfSegment(segment) ==
    IF segment.text # <<>> /\ Head(segment.text) = SP
    THEN Tail(segment.text) ELSE segment.text

\* the words of the drawn lines, line after line
RECURSIVE placedWords(_, _)
placedWords(lines, k) ==
    IF k > Len(lines) THEN <<>>
    ELSE SeqOf([j \in 1..Len(lines[k].segments) |->
                   wordOfSegment(lines[k].segments[j])], Len(lines[k].segments))
         \o placedWords(lines, k + 1)

\* the width a drawn line takes: every segment in the font it is drawn in
RECURSIVE drawnWidth(_, _)
drawnWidth(segments, k) ==
    IF k = 0 THEN 0
    ELSE getTextWidth(segments[k].font, segments[k].text)
         + drawnWidth(segments, k - 1)

usableWidth(p) == maxWidth(p) - ParagraphIndent

\* C19: the drawn segments are the words of the runs, each one whole and
\* once, in order, and every drawn line of more than one word is at most as
\* wide as the usable width (page width minus margins minus indent)
C19_WordsWholeLinesFit ==
    pdf.called =>
        /\ placedWords(pdf.lines, 1)
             = sourceWords(parseMarkdown(trim(paragraph)), 1)
        /\ \A k \in 1..Len(pdf.lines) :
              Len(pdf.lines[k].segments) > 1 =>
                  drawnWidth(pdf.lines[k].segments, Len(pdf.lines[k].segments))
                      <= usableWidth(pdf)

(***************************************************************************)
(* Properties of the paragraphs splitTextIntoParagraphs returns.           *)
(***************************************************************************)
\* the paragraphs ps[k], ps[k + 1], ... lie in n from position `from` on,
\* one after the other without overlap
RECURSIVE PiecesInOrder(_, _, _, _)
PiecesInOrder(n, ps, k, from) ==
    \/ k > Len(ps)
    \/ \E i \in from..(Len(n) - Len(ps[k]) + 1) :
          /\ MatchesAt(n, ps[k], i)
          /\ PiecesInOrder(n, ps, k + 1, i + Len(ps[k]))

\* C20: every returned paragraph has a character that is not white space
\* and no carriage return, and the returned paragraphs are pieces of the
\* normalized text that follow one another in it without overlap
C20_ParagraphsArePiecesOfNormalizedText ==
    splitOut.called =>
        /\ \A k \in 1..Len(splitOut.paragraphs) :
              /\ \E i \in 1..Len(splitOut.paragraphs[k]) :
                    splitOut.paragraphs[k][i] \notin WhiteSpace
              /\ \A i \in 1..Len(splitOut.paragraphs[k]) :
                    splitOut.paragraphs[k][i] # CR
        /\ PiecesInOrder(normalizeLineEndings(text), splitOut.paragraphs, 1, 1)

\* a text with both kinds of carriage return is split into two paragraphs
\* and loses the line ends between them
C20_Witness ==
    /\ splitOut.called
    /\ includes(text, <<CR, LF>>)
    /\ \E i \in 1..Len(text) : text[i] = CR /\ (i = Len(text) \/ text[i + 1] # LF)
    /\ Len(splitOut.paragraphs) = 2
    /\ sumLengths(splitOut.paragraphs) < Len(normalizeLineEndings(text))

(***************************************************************************)
(* Properties of the header branch of parseMarkdown.                       *)
(***************************************************************************)
\* the number of hashes at the cursor and of the blanks after them
HashesAt(s, ci) == runLength(s, {HASH}, ci + 1)
BlanksAfterHashes(s, ci) == runLength(s, {SP}, ci + HashesAt(s, ci) + 1)

\* the position (1-based) of the first character after hashes and blanks
HeadingTextStart(s, ci) == ci + HashesAt(s, ci) + BlanksAfterHashes(s, ci) + 1

\* one to six hashes at the start of the fragment or after a line break,
\* then at least one blank, then text on the same line
HeadingAt(s, ci) ==
    /\ headerStart(s, ci)
    /\ HashesAt(s, ci) >= 1 /\ HashesAt(s, ci) <= MaxHeaderLevel
    /\ BlanksAfterHashes(s, ci) >= 1
    /\ HeadingTextStart(s, ci) <= Len(s)
    /\ s[HeadingTextStart(s, ci)] # LF

\* the step has pushed a header
HeaderPushed ==
    /\ Len(elements') = Len(elements) + 1
    /\ elements'[Len(elements')].type = "header"

\* C21: a step of the loop pushes a header exactly when one to six hashes
\* stand at the cursor, at the start of the fragment or right after a line
\* break, followed by at least one blank and then text on the same line;
\* its level is the number of hashes and its content the text after the
\* blanks up to the next line break or the end of the fragment
C21_HeadingExactlyWhenHashesBlankText ==
    [][ /\ HeaderPushed <=> HeadingAt(fragment, currentIndex)
        /\ HeaderPushed =>
              /\ elements'[Len(elements')].level = HashesAt(fragment, currentIndex)
              /\ elements'[Len(elements')].content
                   = SubSeq(fragment, HeadingTextStart(fragment, currentIndex),
                            lineEnd(fragment, HeadingTextStart(fragment, currentIndex)))
      ]_mdVars

(***************************************************************************)
(* Properties of the elements parseMarkdown pushes.                        *)
(***************************************************************************)
\* C22: every element pushed, of any type, has a content that is not empty,
\* and every header has a level from 1 to 6
C22_ElementsHaveContent ==
    \A k \in 1..Len(elements) :
        /\ elements[k].type \in {"text", "bold", "italic", "code", "header"}
        /\ elements[k].content # <<>>
        /\ elements[k].type = "header" =>
               elements[k].level >= 1 /\ elements[k].level <= MaxHeaderLevel

\* an opening marker directly followed by its closing marker, parsed to its
\* end: the stars of a bold pair, and a code pair before a header
C22_Witness ==
    /\ ParseDone
    /\ \/ /\ fragment = <<STAR, STAR, STAR, STAR>>
          /\ Len(elements) = 4
          /\ \A k \in 1..4 : elements[k] = Plain(<<STAR>>)
       \/ /\ fragment = <<TICK, TICK>>
          /\ elements = <<Plain(<<TICK>>), Plain(<<TICK>>)>>

(***************************************************************************)
(* Properties of the pages exportToPdf fills.                              *)
(***************************************************************************)
\* C23: no line is drawn below the usable page height (page height minus
\* 20): when the cursor is beyond it a page is added and the line is drawn
\* at the top position; the lines are drawn page after page, and down the
\* page on one page
C23_LinesWithinPageInOrder ==
    /\ \A k \in 1..Len(pdf.lines) :
          /\ pdf.lines[k].y <= pdf.pageHeight - PageFoot
          /\ pdf.lines[k].y >= FirstLineY
          /\ pdf.lines[k].page >= 1 /\ pdf.lines[k].page <= pdf.page
    /\ \A k \in 1..(Len(pdf.lines) - 1) :
          \/ pdf.lines[k + 1].page = pdf.lines[k].page + 1
             /\ pdf.lines[k + 1].y = FirstLineY
          \/ pdf.lines[k + 1].page = pdf.lines[k].page
             /\ pdf.lines[k + 1].y > pdf.lines[k].y

\* a paragraph drawn over more than one page, a line of it at the top of
\* the page added for it
C23_Witness ==
    /\ pdf.called
    /\ pdf.pageHeight = 62
    /\ \E k \in 2..Len(pdf.lines) :
          /\ pdf.lines[k - 1].y > FirstLineY
          /\ pdf.lines[k - 1].y + lineHeight(ParagraphFontSize) > pdf.pageHeight - PageFoot
          /\ pdf.lines[k].page = pdf.lines[k - 1].page + 1
          /\ pdf.lines[k].y = FirstLineY

\* a line drawn by addWrappedText for the label of a found paragraph
IsLabelLine(line) ==
    /\ Len(line.segments) = 1
    /\ line.segments[1].x = margin + LabelIndent
    /\ line.segments[1].font = [name |-> "helvetica", style |-> "bold"]

\* C24: the first line of the content of a found paragraph is drawn at the
\* vertical position of its label when both are on one page
C24_ContentOnLabelLine ==
    \A k \in 1..(Len(pdf.lines) - 1) :
        (IsLabelLine(pdf.lines[k]) /\ pdf.lines[k + 1].page = pdf.lines[k].page) =>
            pdf.lines[k + 1].y = pdf.lines[k].y

(***************************************************************************)
(* The white space between the words addFormattedText draws.               *)
(***************************************************************************)
\* for every word of the elements from the k-th on, whether white space
\* stands before it in the fragment; `pending` tells whether white space
\* has been passed since the word before
RECURSIVE SourceGaps(_, _, _)
SourceGaps(els, k, pending) ==
    IF k > Len(els) THEN <<>>
    ELSE LET c == els[k].content
             n == Len(wordsOf(c))
         IN  IF n = 0
             THEN SourceGaps(els, k + 1, pending \/ c # <<>>)
             ELSE SeqOf([j \in 1..n |->
                            IF j = 1 THEN pending \/ c[1] \in WhiteSpace ELSE TRUE], n)
                  \o SourceGaps(els, k + 1, c[Len(c)] \in WhiteSpace)

\* for every segment drawn, whether a blank or a line break separates it
\* from the segment drawn before it
RECURSIVE PlacedGaps(_, _)
PlacedGaps(lines, k) ==
    IF k > Len(lines) THEN <<>>
    ELSE SeqOf([j \in 1..Len(lines[k].segments) |->
                   \/ j = 1
                   \/ Head(lines[k].segments[j].text) = SP],
               Len(lines[k].segments))
         \o PlacedGaps(lines, k + 1)

\* C30: two consecutive words are drawn apart, by a blank or on two lines,
\* only if white space stood between them in the fragment
C30_NoSpaceGained ==
    pdf.called =>
        LET placed == PlacedGaps(pdf.lines, 1)
            source == SourceGaps(parseMarkdown(trim(paragraph)), 1, FALSE)
        IN  /\ Len(placed) = Len(source)
            /\ \A j \in 2..Len(placed) : placed[j] => source[j]

(***************************************************************************)
(* The loading state of handleSearch.                                      *)
(***************************************************************************)
\* C25: a search that passes the validation sets isSearching, a search in
\* progress ends with isSearching cleared whether or not its try block
\* failed, and isSearching is false whenever no search is in progress
C25_LoadingStateCleared ==
    /\ [][ (request'.called /\ request'.at = "try") => isSearching' ]_vars
    /\ [](InProgress \/ ~isSearching)
    /\ (isSearching ~> ~isSearching)

\* a search whose try block failed has ended, with the term stored and the
\* loading state cleared
C25_Witness ==
    /\ request.called
    /\ request.at = "done"
    /\ request.failed
    /\ searchTerm = Str_a
    /\ ~isSearching

(***************************************************************************)
(* The results held and the files held.                                    *)
(***************************************************************************)
\* C26: every entry of searchResults is what the search for searchTerm
\* finds in a file that is loaded now, and a handler that changes the files
\* or the source mode leaves searchResults and debugInfo empty
C26_ResultsOfCurrentFiles ==
    /\ [](\A k \in 1..Len(searchResults) :
             \E i \in 1..Len(files) :
                searchResults[k]
                  = searchFile(files[i], searchTerm, normalizeTerm(searchTerm)).result)
    /\ [][ (files' # files \/ fileSourceMode' # fileSourceMode) =>
               (searchResults' = <<>> /\ debugInfo' = <<>>) ]_vars

\* files loaded after a search: the term of the search is still stored and
\* its results are gone
C26_Witness ==
    /\ request = NotCalled
    /\ searchTerm = Str_a
    /\ Len(files) = 2
    /\ searchResults = <<>>
    /\ debugInfo = <<>>

(***************************************************************************)
(* The found paragraphs and the term.                                      *)
(***************************************************************************)
\* C27: after a search every text in foundParagraphs is not empty and
\* holds the normalized search term, upper and lower case taken as equal
C27_FoundParagraphsHoldTerm ==
    (request.called /\ ~rejectsSearch(request.term, request.selectedFileIds)) =>
        \A k \in 1..Len(searchResults) :
            \A i \in 1..Len(searchResults[k].foundParagraphs) :
                /\ searchResults[k].foundParagraphs[i] # <<>>
                /\ includes(toLowerCase(searchResults[k].foundParagraphs[i]),
                            normalizeTerm(searchTerm))

(***************************************************************************)
(* DataFolderSelector: the check boxes and the loads they start.  A call   *)
(* of loadSelectedFilesContent runs to its next await in one step; the     *)
(* calls that wait are in `loads`, and any of them may be resumed next.    *)
(***************************************************************************)
\* the files of the data folder that answer the HEAD request, by name and
\* in the order of actualFiles
DataFolder == <<"one.md", "two.md", "gone.md">>

\* the files whose GET does not answer ok
FetchFails == {"gone.md"}

\* the most calls of loadSelectedFilesContent that wait at one time
MaxLoads == 2

\* the FileData pushed for a file that was read; the pool's id stands for
\* the id made of the name and the time of the read
fileDataOf(name) == CHOOSE f \in FilePool : f.name = name

allFileNames(available) == {available[i] : i \in 1..Len(available)}

\* for (const file of files) if (selectedNames.has(file.name)): the index
\* of the next file after position i that is fetched, or 0 at the end
nextSelected(available, i, selectedNames) ==
    LET later == {j \in (i + 1)..Len(available) : available[j] \in selectedNames}
    IN  IF later = {} THEN 0 ELSE CHOOSE j \in later : \A k \in later : j <= k

loadOf(available, selectedNames, at, awaiting, fileDataList, errors, whole) ==
    [files |-> available, selectedNames |-> selectedNames, at |-> at,
     awaiting |-> awaiting, fileDataList |-> fileDataList, errors |-> errors,
     whole |-> whole]

removeAt(s, k) == SubSeq(s, 1, k - 1) \o SubSeq(s, k + 1, Len(s))

\* the end of loadSelectedFilesContent: setError and onFilesSelected; the
\* call made by loadDataFolderFiles then runs its finally block
finishLoad(sel, fileDataList, errors, whole) ==
    /\ selector' = [sel EXCEPT !.error = errors,
                               !.isLoading = IF whole THEN FALSE ELSE @]
    /\ handleFilesSelected(fileDataList)

\* loadSelectedFilesContent from its first line to its first await; `sel`
\* is the component state the caller has set
loadSelectedFilesContent(sel, available, selectedNames, whole) ==
    LET first == nextSelected(available, 0, selectedNames)
    IN  IF first = 0
        THEN finishLoad(sel, <<>>, <<>>, whole) /\ UNCHANGED loads
        ELSE /\ selector' = sel
             /\ loads' = Append(loads, loadOf(available, selectedNames, first,
                                              "fetch", <<>>, <<>>, whole))
             /\ UNCHANGED appVars

\* the call loads[k] goes on after the promise it awaits has settled
resumeLoad(k) ==
    LET l    == loads[k]
        name == l.files[l.at]
        next == nextSelected(l.files, l.at, l.selectedNames)
        goOn(fileDataList, errors) ==
            IF next = 0
            THEN /\ finishLoad(selector, fileDataList, errors, l.whole)
                 /\ loads' = removeAt(loads, k)
            ELSE /\ loads' = [loads EXCEPT ![k] =
                                 loadOf(l.files, l.selectedNames, next, "fetch",
                                        fileDataList, errors, l.whole)]
                 /\ UNCHANGED <<selector, appVars>>
    IN  IF l.awaiting = "fetch"
        THEN IF name \in FetchFails
             THEN goOn(l.fileDataList, Append(l.errors, name))
             ELSE /\ loads' = [loads EXCEPT ![k].awaiting = "text"]
                  /\ UNCHANGED <<selector, appVars>>
        ELSE goOn(Append(l.fileDataList, fileDataOf(name)), l.errors)

\* loadDataFolderFiles, on mount and on the refresh button
loadDataFolderFiles ==
    loadSelectedFilesContent(
        [availableFiles |-> DataFolder, selectedFiles |-> allFileNames(DataFolder),
         isLoading |-> TRUE, error |-> <<>>],
        DataFolder, allFileNames(DataFolder), TRUE)

handleFileToggle(fileName) ==
    LET newSelected == IF fileName \in selector.selectedFiles
                       THEN selector.selectedFiles \ {fileName}
                       ELSE selector.selectedFiles \cup {fileName}
    IN  loadSelectedFilesContent([selector EXCEPT !.selectedFiles = newSelected],
                                 selector.availableFiles, newSelected, FALSE)

handleSelectAll ==
    IF Cardinality(selector.selectedFiles) = Len(selector.availableFiles)
    THEN /\ selector' = [selector EXCEPT !.selectedFiles = {}]
         /\ handleFilesSelected(<<>>)
         /\ UNCHANGED loads
    ELSE loadSelectedFilesContent(
             [selector EXCEPT !.selectedFiles = allFileNames(selector.availableFiles)],
             selector.availableFiles, allFileNames(selector.availableFiles), FALSE)

folderRest == <<text, splitOut, paragraph, term, procOut, request, mdVars,
                exportVars, upload, batches, now>>

\* the effect runs once after the first render; the refresh button is
\* there when the list is shown
LoadDataFolderFiles ==
    /\ fileSourceMode = "data-folder"
    /\ Len(loads) < MaxLoads
    /\ \/ selector.availableFiles = <<>> /\ loads = <<>>
       \/ ~selector.isLoading
    /\ loadDataFolderFiles
    /\ UNCHANGED folderRest

FileToggle ==
    /\ ~selector.isLoading
    /\ Len(loads) < MaxLoads
    /\ \E i \in 1..Len(selector.availableFiles) :
           handleFileToggle(selector.availableFiles[i])
    /\ UNCHANGED folderRest

SelectAll ==
    /\ ~selector.isLoading
    /\ selector.availableFiles # <<>>
    /\ Len(loads) < MaxLoads
    /\ handleSelectAll
    /\ UNCHANGED folderRest

LoadResumes ==
    /\ \E k \in 1..Len(loads) : resumeLoad(k)
    /\ UNCHANGED folderRest

NextFolder == LoadDataFolderFiles \/ FileToggle \/ SelectAll \/ LoadResumes

SpecFolder == Init /\ [][NextFolder]_vars

namesOfFiles == {files[i].name : i \in 1..Len(files)}

\* C28: once no load is pending, the files the application holds for
\* searching are exactly the checked files whose content was fetched, so a
\* load started by an earlier click has not replaced the result of a later
\* click.
C28_FilesAreCheckedAndLoaded ==
    (loads = <<>> /\ ~selector.isLoading)
        => namesOfFiles = selector.selectedFiles \ FetchFails

(***************************************************************************)
(* FileUpload: the batches handed to processFiles and the removals.  A     *)
(* call of processFiles runs to its next await in one step; the calls that *)
(* wait are in `batches`, and any of them may be resumed next.             *)
(***************************************************************************)
\* 10 * 1024 * 1024
MaxUploadSize == 10485760

uploadFileOf(name, type, size, content, readable) ==
    [name |-> name, type |-> type, size |-> size, content |-> content,
     readable |-> readable]

\* file.type.includes('text')
TextTypes == {"text/plain", "text/markdown"}

\* file.name.endsWith('.md') || file.name.endsWith('.txt')
MdOrTxtNames == {"one.md", "bad.md", "big.txt"}

OneMd   == uploadFileOf("one.md", "", 4, <<"a", LF, LF, "b">>, TRUE)
Notes   == uploadFileOf("notes", "text/plain", 1, <<"a">>, TRUE)
PicPng  == uploadFileOf("pic.png", "image/png", 9, <<>>, TRUE)
BigTxt  == uploadFileOf("big.txt", "text/plain", MaxUploadSize + 1, <<>>, TRUE)
BadMd   == uploadFileOf("bad.md", "text/markdown", 2, <<>>, FALSE)

\* the FileLists a drop or a file input can hand over
UploadLists ==
    { <<OneMd>>, <<Notes>>, <<PicPng, OneMd>>, <<BigTxt, BadMd>>, <<BadMd, Notes>> }

\* the most calls of processFiles that wait at one time, and the most
\* files read in a run
MaxBatches == 2
MaxReads == 3

typeAccepted(file) == file.type \in TextTypes \/ file.name \in MdOrTxtNames

accepted(file) == typeAccepted(file) /\ file.size <= MaxUploadSize

\* the message pushed for a file that is not read
rejectionOf(file) ==
    IF ~typeAccepted(file) THEN [name |-> file.name, message |-> "Unsupported file type"]
    ELSE [name |-> file.name, message |-> "File too large"]

\* `${file.name}-${Date.now()}-${i}`
uploadIdOf(name, t, i) == <<name, t, i>>

\* the index of the next file after position i that is read, or 0
nextAccepted(fileList, i) ==
    LET later == {j \in (i + 1)..Len(fileList) : accepted(fileList[j])}
    IN  IF later = {} THEN 0 ELSE CHOOSE j \in later : \A k \in later : j <= k

\* the messages of the files at positions from..to, none of which is read
rejections(fileList, from, to) ==
    SeqOf([k \in 1..(to - from + 1) |-> rejectionOf(fileList[from + k - 1])],
          to - from + 1)

batchOf(fileList, captured, at, processedFiles, errors) ==
    [fileList |-> fileList, files |-> captured, at |-> at,
     processedFiles |-> processedFiles, errors |-> errors]

\* [...files, ...processedFiles] with the files of the render that made
\* the callback
updatedFilesOf(captured, processedFiles) == captured \o processedFiles

\* the end of processFiles: setError, and setFiles / onFilesUploaded when a
\* file was read
finishBatch(captured, processedFiles, errors) ==
    IF processedFiles # <<>>
    THEN /\ upload' = [files |-> updatedFilesOf(captured, processedFiles),
                       error |-> errors]
         /\ handleFilesUploaded(updatedFilesOf(captured, processedFiles))
    ELSE /\ upload' = [upload EXCEPT !.error = errors]
         /\ UNCHANGED appVars

\* the loop of processFiles from position i to its next await or its end;
\* `rest` is the list of the other calls that wait
processLoop(rest, fileList, captured, i, processedFiles, errors) ==
    LET j == nextAccepted(fileList, i)
        last == IF j = 0 THEN Len(fileList) ELSE j - 1
        errs == errors \o rejections(fileList, i + 1, last)
    IN  IF j = 0
        THEN finishBatch(captured, processedFiles, errs) /\ batches' = rest
        ELSE /\ batches' = Append(rest, batchOf(fileList, captured, j,
                                                processedFiles, errs))
             /\ UNCHANGED <<upload, appVars>>

processFiles(fileList) ==
    /\ processLoop(batches, fileList, upload.files, 0, <<>>, <<>>)
    /\ UNCHANGED now

\* the call batches[k] goes on after file.text() has settled
resumeBatch(k) ==
    LET b    == batches[k]
        file == b.fileList[b.at]
        rest == removeAt(batches, k)
    IN  IF file.readable
        THEN /\ now' = now + 1
             /\ processLoop(rest, b.fileList, b.files, b.at,
                    Append(b.processedFiles,
                           FileOf(uploadIdOf(file.name, now + 1, b.at - 1),
                                  file.name, file.content)),
                    b.errors)
        ELSE /\ UNCHANGED now
             /\ processLoop(rest, b.fileList, b.files, b.at, b.processedFiles,
                    Append(b.errors, [name |-> file.name,
                                      message |-> "Failed to read file content"]))

removeFile(fileId) ==
    LET updatedFiles == SelectSeq(upload.files, LAMBDA f : f.id # fileId)
    IN  /\ upload' = [upload EXCEPT !.files = updatedFiles]
        /\ handleFilesUploaded(updatedFiles)
        /\ UNCHANGED <<batches, now>>

uploadRest == <<text, splitOut, paragraph, term, procOut, request, mdVars,
                exportVars, selector, loads>>

\* the mode switch that shows the upload component
UploadModeChange ==
    /\ fileSourceMode = "data-folder"
    /\ handleModeChange("upload")
    /\ UNCHANGED <<componentVars, uploadRest>>

ProcessFiles ==
    /\ fileSourceMode = "upload"
    /\ Len(batches) < MaxBatches
    /\ now < MaxReads
    /\ \E fileList \in UploadLists : processFiles(fileList)
    /\ UNCHANGED uploadRest

BatchResumes ==
    /\ \E k \in 1..Len(batches) : resumeBatch(k)
    /\ UNCHANGED uploadRest

RemoveFile ==
    /\ fileSourceMode = "upload"
    /\ \E i \in 1..Len(upload.files) : removeFile(upload.files[i].id)
    /\ UNCHANGED uploadRest

NextUpload == UploadModeChange \/ ProcessFiles \/ BatchResumes \/ RemoveFile

SpecUpload == Init /\ [][NextUpload]_vars

\* the files a call of processFiles has read when the read it waits for has
\* settled as its last one
processedAtEnd(b) ==
    LET file == b.fileList[b.at]
    IN  IF file.readable
        THEN Append(b.processedFiles,
                    FileOf(uploadIdOf(file.name, now', b.at - 1), file.name,
                           file.content))
        ELSE b.processedFiles

filesIn(fs) == {fs[i] : i \in 1..Len(fs)}

\* C29: when a call of processFiles ends, the uploaded list holds the files
\* it held before the end together with the files the call has read: no
\* file accepted before is lost and no removed file is back, whatever other
\* batch or removal came between the start of the call and its end.
C29_BatchAddsToCurrentList ==
    [][Len(batches') < Len(batches) =>
         \E k \in 1..Len(batches) :
             /\ batches' = removeAt(batches, k)
             /\ filesIn(upload'.files) =
                    filesIn(upload.files) \cup filesIn(processedAtEnd(batches[k]))]_vars

=============================================================================
